---- MODULE Spec2Model ----
(***************************************************************************)
(* midi-router: the MIDI event decoder (src/midi.rs), the routing table    *)
(* and its conditions (src/routing.rs) and the JACK process handler        *)
(* (src/jack_router.rs)                                                    *)
(*                                                                         *)
(* and the rule-file parser (src/parser/parser.rs, src/parser/errors.rs).  *)
(*                                                                         *)
(* Seven specifications share the variables below:                         *)
(*   SpecDecode  decode_raw_midi applied to one raw byte buffer            *)
(*   SpecMatch   Condition::matches applied to one condition and event     *)
(*   SpecRoute   RoutingTable::get_output_ports / get_all_output_ports     *)
(*   Spec        the process callback, period after period                 *)
(*   SpecField   parse_field_lhs applied to one token, its error shown     *)
(*   SpecParse   RuleParser::parse, token after token of one line          *)
(*   SpecLoad    load_rules_from_file, line after line of one file         *)
(***************************************************************************)
EXTENDS Integers, Sequences, FiniteSets

VARIABLES
    pc,                 \* position of the specification's driver
    overflow_checks,    \* build profile: TRUE when integer overflow panics
    raw_midi,           \* RawMidi.bytes handed to decode_raw_midi
    decoded,            \* what decode_raw_midi did with raw_midi
    condition,          \* a Condition
    midi_event,         \* a MidiEvent
    matched,            \* result of condition.matches(midi_event)
    routing_table,      \* RoutingTable.rules
    output_ports,       \* result of get_output_ports(midi_event)
    all_output_ports,   \* result of get_all_output_ports()
    midi_output_ports,  \* JackRouterProcessHandler.midi_output_ports (names)
    midi_in,            \* events pending on the input port in this period
    midi_out,           \* per output port, the events in its buffer
    handled,            \* per input event of the period, what process did
    control,            \* what the last process callback returned, if any
    token_id,           \* field_id: index of a token within its line
    token,              \* value: the token's text
    token_field,        \* what parse_field_lhs did with the token
    field_text,         \* the text shown for a rejected token
    rule_line_no,       \* line_no handed to parse_rule
    rule_line,          \* line, as split_whitespace yields it
    parser,             \* the RuleParser, and how many tokens it has taken
    parsed,             \* what RuleParser::parse returned
    rule_file,          \* a rule file as the reader delivers it
    loader,             \* load_rules_from_file's locals
    loaded              \* what load_rules_from_file returned

vars == <<pc, overflow_checks, raw_midi, decoded, condition, midi_event,
          matched, routing_table, output_ports, all_output_ports,
          midi_output_ports, midi_in, midi_out, handled, control,
          token_id, token, token_field, field_text, rule_line_no, rule_line, parser,
          parsed, rule_file, loader, loaded>>

None == [none |-> TRUE]

\* The variables of the router, and their values in the specifications of
\* the parser, which never touch them.
router_vars == <<raw_midi, decoded, condition, midi_event, matched,
                 routing_table, output_ports, all_output_ports,
                 midi_output_ports, midi_in, midi_out, handled, control>>

RouterIdle ==
    /\ raw_midi = <<>>
    /\ decoded = None
    /\ condition = None
    /\ midi_event = None
    /\ matched = None
    /\ routing_table = <<>>
    /\ output_ports = None
    /\ all_output_ports = None
    /\ midi_output_ports = {}
    /\ midi_in = <<>>
    /\ midi_out = <<>>
    /\ handled = <<>>
    /\ control = "none"

\* The variables of the parser, and their values in the specifications of
\* the router, which never touch them.
parser_vars == <<token_id, token, token_field, field_text, rule_line_no, rule_line,
                 parser, parsed, rule_file, loader, loaded>>

ParserIdle ==
    /\ token_id = 0
    /\ token = ""
    /\ token_field = None
    /\ field_text = None
    /\ rule_line_no = 0
    /\ rule_line = <<>>
    /\ parser = None
    /\ parsed = None
    /\ rule_file = None
    /\ loader = None
    /\ loaded = None

----------------------------------------------------------------------------
(* Machine integers                                                        *)

WrapI16(x) == ((x + 32768) % 65536) - 32768

FitsI16(x) == x >= -32768 /\ x <= 32767

----------------------------------------------------------------------------
(* src/midi.rs                                                             *)

MIN_PITCHWHEEL == -8192

\* Results of decode_raw_midi: Ok(event), Err(message) or a panic.
Ok(event) == [tag |-> "Ok", event |-> event]

Err(event_type) == [tag |-> "Err", unknown_event_id |-> event_type]

Panic(why) == [tag |-> "Panic", why |-> why]

\* raw_midi.bytes[i], 0-based; a slice index past the end panics.
InBounds(bytes, i) == i < Len(bytes)

At(bytes, i) == bytes[i + 1]

\* raw_midi.bytes[0] >> 4
EventType(b0) == b0 \div 16

\* The channel as the wire numbers it, from 0.
Channel_zero_based(b0) == b0 % 16

\* (raw_midi.bytes[0] & 0x0f) + 1
Channel(b0) == (b0 % 16) + 1

\* The two data bytes taken in the wrong order.
PitchBendValue_swapped(b1, b2, checks) ==
    [overflow |-> FALSE,
     value |-> WrapI16(WrapI16(b1 * 128) + b2 + MIN_PITCHWHEEL)]

\* ((bytes[2] as i16) << 7) + (bytes[1] as i16) + MIN_PITCHWHEEL in i16:
\* the shift drops the bits it pushes out; each addition panics on overflow
\* when the build checks overflow and wraps otherwise.
PitchBendValue(b1, b2, checks) ==
    LET hi == WrapI16(b2 * 128)
        s1 == hi + b1
        s2 == WrapI16(s1) + MIN_PITCHWHEEL
    IN  IF checks /\ (~FitsI16(s1) \/ ~FitsI16(s2))
        THEN [overflow |-> TRUE, value |-> 0]
        ELSE [overflow |-> FALSE, value |-> WrapI16(s2)]

\* The arm 0xf of decode_raw_midi: match channel { ... }, where channel is
\* the 1-based value computed for every message.
SystemMessage(bytes, channel) ==
    CASE channel = 0 -> Ok([kind |-> "SystemExclusive"])
      [] channel = 1 -> Ok([kind |-> "MidiTimeCodeQtrFrame"])
      [] channel = 2 -> Ok([kind |-> "SongPositionPointer"])
      [] channel = 3 -> IF InBounds(bytes, 1)
                        THEN Ok([kind |-> "SongSelect", song_num |-> At(bytes, 1)])
                        ELSE Panic("index")
      [] channel = 6 -> Ok([kind |-> "TuneRequest"])
      [] channel = 7 -> Ok([kind |-> "EndOfSysEx"])
      [] channel = 8 -> Ok([kind |-> "TimingClock"])
      [] channel = 10 -> Ok([kind |-> "Start"])
      [] channel = 11 -> Ok([kind |-> "Continue"])
      [] channel = 12 -> Ok([kind |-> "Stop"])
      [] channel = 14 -> Ok([kind |-> "ActiveSensing"])
      [] channel = 15 -> Ok([kind |-> "SystemReset"])
      [] OTHER -> Ok([kind |-> "Undefined"])

\* The arm _ of decode_raw_midi.
UnknownEvent(event_type) == Err(event_type)

decode_raw_midi(bytes, checks) ==
    IF ~InBounds(bytes, 0) THEN Panic("index")
    ELSE
    LET event_type == EventType(At(bytes, 0))
        channel == Channel(At(bytes, 0))
        has1 == InBounds(bytes, 1)
        has2 == InBounds(bytes, 2)
    IN  CASE event_type = 8 ->
               IF has1 /\ has2
               THEN Ok([kind |-> "NoteOff", channel |-> channel,
                        note |-> At(bytes, 1), velocity |-> At(bytes, 2)])
               ELSE Panic("index")
          [] event_type = 9 ->
               IF has1 /\ has2
               THEN Ok([kind |-> "NoteOn", channel |-> channel,
                        note |-> At(bytes, 1), velocity |-> At(bytes, 2)])
               ELSE Panic("index")
          [] event_type = 10 ->
               IF has1 /\ has2
               THEN Ok([kind |-> "PolyphonicAftertouch", channel |-> channel,
                        note |-> At(bytes, 1), pressure |-> At(bytes, 2)])
               ELSE Panic("index")
          [] event_type = 11 ->
               IF has1 /\ has2
               THEN Ok([kind |-> "ControlChange", channel |-> channel,
                        control_no |-> At(bytes, 1), value |-> At(bytes, 2)])
               ELSE Panic("index")
          [] event_type = 12 ->
               IF has1
               THEN Ok([kind |-> "ProgramChange", channel |-> channel,
                        program |-> At(bytes, 1)])
               ELSE Panic("index")
          [] event_type = 13 ->
               IF has1
               THEN Ok([kind |-> "ChannelAftertouch", channel |-> channel,
                        pressure |-> At(bytes, 1)])
               ELSE Panic("index")
          [] event_type = 14 ->
               IF has1 /\ has2
               THEN LET v == PitchBendValue(At(bytes, 1), At(bytes, 2), checks)
                    IN  IF v.overflow THEN Panic("overflow")
                        ELSE Ok([kind |-> "PitchBendChange", channel |-> channel,
                                 value |-> v.value])
               ELSE Panic("index")
          [] event_type = 15 -> SystemMessage(bytes, channel)
          [] OTHER -> UnknownEvent(event_type)

\* impl From<&MidiEvent> for &'static str, derived by strum::IntoStaticStr
\* from the serialize attributes.
EventName(event) ==
    CASE event.kind = "NoteOff" -> "note-off"
      [] event.kind = "NoteOn" -> "note-on"
      [] event.kind = "PolyphonicAftertouch" -> "polyphonic-aftertouch"
      [] event.kind = "ControlChange" -> "control-change"
      [] event.kind = "ProgramChange" -> "program-change"
      [] event.kind = "ChannelAftertouch" -> "channel-aftertouch"
      [] event.kind = "PitchBendChange" -> "pitch-bend-change"
      [] event.kind = "SystemExclusive" -> "system-exclusive"
      [] event.kind = "MidiTimeCodeQtrFrame" -> "midi-time-code-qtr-frame"
      [] event.kind = "SongPositionPointer" -> "song-position-pointer"
      [] event.kind = "SongSelect" -> "song-select"
      [] event.kind = "TuneRequest" -> "tone-request"
      [] event.kind = "EndOfSysEx" -> "end-of-sys-ex"
      [] event.kind = "TimingClock" -> "timing-clock"
      [] event.kind = "Start" -> "start"
      [] event.kind = "Continue" -> "continue"
      [] event.kind = "Stop" -> "stop"
      [] event.kind = "ActiveSensing" -> "active-sensing"
      [] event.kind = "SystemReset" -> "system-reset"
      [] OTHER -> "undefined"

----------------------------------------------------------------------------
(* src/routing.rs                                                          *)

Some(x) == [some |-> x]

IsSome(opt) == "some" \in DOMAIN opt

NumericRange(start, end) == [start |-> start, end |-> end]

\* The upper bound taken as exclusive.
is_within_exclusive_end(range, value) == value >= range.start /\ value < range.end

\* NumericRange::is_within
is_within(range, value) == value >= range.start /\ value <= range.end

\* Regex::is_match(pattern, name) for the patterns the model draws: an
\* unanchored search, given by the canonical names each pattern finds a
\* match in.
is_match(pattern, name) ==
    CASE pattern = ".*" -> TRUE
      [] pattern = "note-[onf]{2,3}" -> name \in {"note-off", "note-on"}
      [] pattern = "note-*" -> name \in {"note-off", "note-on"}
      [] pattern = "note-.*" -> name \in {"note-off", "note-on"}
      [] pattern = "note-off" -> name = "note-off"
      [] pattern = "note-on" -> name = "note-on"
      [] pattern = ".*-aftertouch" ->
             name \in {"polyphonic-aftertouch", "channel-aftertouch"}
      [] pattern = "-change" ->
             name \in {"control-change", "program-change", "pitch-bend-change"}
      [] pattern = "^s" ->
             name \in {"system-exclusive", "song-position-pointer",
                       "song-select", "start", "stop", "system-reset"}
      [] OTHER -> FALSE

\* Condition::match_range
match_range(range, value) ==
    IF IsSome(range) THEN is_within(range.some, value) ELSE TRUE

\* Condition::match_channel
match_channel(cond, channel) == match_range(cond.channel_pattern, channel)

\* Condition::match_value
match_value(cond, value) == match_range(cond.value_pattern, value)

\* Condition::match_value_u8: value as i16, lossless for a u8
match_value_u8(cond, value) == match_value(cond, WrapI16(value))

\* Condition::match_velocity
match_velocity(cond, velocity) == match_range(cond.velocity_pattern, velocity)

\* Condition::match_control_no
match_control_no(cond, controller) ==
    match_range(cond.controller_pattern, controller)

\* Condition::matches with the pressure of a channel-aftertouch event taken
\* for a velocity, as that of a polyphonic-aftertouch event is.
matches_channel_pressure_as_velocity(cond, event) ==
    IF ~(IF IsSome(cond.event_pattern)
         THEN is_match(cond.event_pattern.some, EventName(event))
         ELSE TRUE)
    THEN FALSE
    ELSE CASE event.kind \in {"NoteOff", "NoteOn"} ->
                match_velocity(cond, event.velocity)
                /\ match_value_u8(cond, event.note)
                /\ match_channel(cond, event.channel)
           [] event.kind = "PolyphonicAftertouch" ->
                match_velocity(cond, event.pressure)
                /\ match_value_u8(cond, event.note)
                /\ match_channel(cond, event.channel)
           [] event.kind = "ControlChange" ->
                match_channel(cond, event.channel)
                /\ match_control_no(cond, event.control_no)
                /\ match_value_u8(cond, event.value)
           [] event.kind = "ProgramChange" ->
                match_channel(cond, event.channel)
                /\ match_value_u8(cond, event.program)
           [] event.kind = "ChannelAftertouch" ->
                match_velocity(cond, event.pressure)
                /\ match_channel(cond, event.channel)
                /\ match_value_u8(cond, event.pressure)
           [] event.kind = "PitchBendChange" ->
                match_channel(cond, event.channel)
                /\ match_value(cond, event.value)
           [] event.kind = "SongSelect" ->
                match_value_u8(cond, event.song_num)
           [] OTHER -> TRUE

\* Condition::matches
matches(cond, event) ==
    IF ~(IF IsSome(cond.event_pattern)
         THEN is_match(cond.event_pattern.some, EventName(event))
         ELSE TRUE)
    THEN FALSE
    ELSE CASE event.kind \in {"NoteOff", "NoteOn"} ->
                match_velocity(cond, event.velocity)
                /\ match_value_u8(cond, event.note)
                /\ match_channel(cond, event.channel)
           [] event.kind = "PolyphonicAftertouch" ->
                match_velocity(cond, event.pressure)
                /\ match_value_u8(cond, event.note)
                /\ match_channel(cond, event.channel)
           [] event.kind = "ControlChange" ->
                match_channel(cond, event.channel)
                /\ match_control_no(cond, event.control_no)
                /\ match_value_u8(cond, event.value)
           [] event.kind = "ProgramChange" ->
                match_channel(cond, event.channel)
                /\ match_value_u8(cond, event.program)
           [] event.kind = "ChannelAftertouch" ->
                match_channel(cond, event.channel)
                /\ match_value_u8(cond, event.pressure)
           [] event.kind = "PitchBendChange" ->
                match_channel(cond, event.channel)
                /\ match_value(cond, event.value)
           [] event.kind = "SongSelect" ->
                match_value_u8(cond, event.song_num)
           [] OTHER -> TRUE

ForwardTo(output_port) == [kind |-> "ForwardTo", output_port |-> output_port]

Rule(cond, actions) == [condition |-> cond, actions |-> actions]

\* RoutingTable::get_port_from_action
get_port_from_action(action) ==
    IF action.kind = "ForwardTo" THEN Some(action.output_port) ELSE None

RECURSIVE get_ports_from_actions(_)
\* RoutingTable::get_ports_from_actions
get_ports_from_actions(actions) ==
    IF actions = <<>> THEN <<>>
    ELSE LET port == get_port_from_action(Head(actions))
         IN  (IF IsSome(port) THEN <<port.some>> ELSE <<>>)
             \o get_ports_from_actions(Tail(actions))

RECURSIVE get_output_ports_first_match(_, _)
\* The first matching rule ends the scan.
get_output_ports_first_match(rules, event) ==
    IF rules = <<>> THEN <<>>
    ELSE IF matches(Head(rules).condition, event)
         THEN get_ports_from_actions(Head(rules).actions)
         ELSE get_output_ports_first_match(Tail(rules), event)

RECURSIVE get_output_ports(_, _)
\* RoutingTable::get_output_ports
get_output_ports(rules, event) ==
    IF rules = <<>> THEN <<>>
    ELSE (IF matches(Head(rules).condition, event)
          THEN get_ports_from_actions(Head(rules).actions)
          ELSE <<>>)
         \o get_output_ports(Tail(rules), event)

RECURSIVE get_all_output_ports_first_action(_)
\* Only the first action of each rule is collected.
get_all_output_ports_first_action(rules) ==
    IF rules = <<>> THEN {}
    ELSE (IF Head(rules).actions = <<>> THEN {}
          ELSE {Head(Head(rules).actions).output_port})
         \cup get_all_output_ports_first_action(Tail(rules))

RECURSIVE get_all_output_ports(_)
\* RoutingTable::get_all_output_ports: the HashSet of the output_port of
\* every action of every rule
get_all_output_ports(rules) ==
    IF rules = <<>> THEN {}
    ELSE {Head(rules).actions[i].output_port : i \in DOMAIN Head(rules).actions}
         \cup get_all_output_ports(Tail(rules))

----------------------------------------------------------------------------
(* src/jack_router.rs                                                      *)

\* Events a port's buffer holds in one period; MidiWriter::write returns
\* Err(NotEnoughSpace) once the buffer is full.
BufferCapacity == 2

\* JackRouter::register_midi_output_ports, every registration succeeding:
\* the keys of the HashMap it returns.
register_midi_output_ports(rules) == get_all_output_ports(rules)

\* JackRouterProcessHandler::create_output_port_writers: one writer per
\* registered port, its buffer cleared.
create_output_port_writers(ports) == [p \in ports |-> <<>>]

\* The error! line of send_event_out for a name without writer.
log_not_found(port_name, sent) == [sent EXCEPT !.not_found = <<port_name>> \o @]

RECURSIVE send_event_out(_, _, _)
\* JackRouterProcessHandler::send_event_out; panic is the unwrap of a
\* failed write, not_found the names it found no writer for.
send_event_out(raw_event, output_port_names, writers) ==
    IF output_port_names = <<>>
    THEN [panic |-> FALSE, writers |-> writers, not_found |-> <<>>]
    ELSE LET port_name == Head(output_port_names)
         IN  IF port_name \in DOMAIN writers
             THEN IF Len(writers[port_name]) < BufferCapacity
                  THEN send_event_out(raw_event, Tail(output_port_names),
                           [writers EXCEPT ![port_name] = Append(@, raw_event)])
                  ELSE [panic |-> TRUE, writers |-> writers,
                        not_found |-> <<>>]
             ELSE log_not_found(port_name,
                                send_event_out(raw_event,
                                               Tail(output_port_names),
                                               writers))

RECURSIVE process(_, _, _, _, _)
\* JackRouterProcessHandler::process, the loop over the pending events:
\* done lists what happened to each event the loop reached.
process(events, rules, checks, writers, done) ==
    IF events = <<>>
    THEN [control |-> "Continue", writers |-> writers, handled |-> done]
    ELSE LET raw_event == Head(events)
             result == decode_raw_midi(raw_event, checks)
         IN  CASE result.tag = "Panic" ->
                    [control |-> "Panic", writers |-> writers,
                     handled |-> Append(done, "decode-panic")]
               [] result.tag = "Err" ->
                    process(Tail(events), rules, checks, writers,
                            Append(done, "skipped"))
               [] OTHER ->
                    LET names == get_output_ports(rules, result.event)
                        sent == send_event_out(raw_event, names, writers)
                    IN  IF sent.panic
                        THEN [control |-> "Panic", writers |-> sent.writers,
                              handled |-> Append(done, "write-panic")]
                        ELSE process(Tail(events), rules, checks,
                                     sent.writers,
                                     Append(done,
                                            IF sent.not_found = <<>>
                                            THEN "routed"
                                            ELSE "port-not-found"))

----------------------------------------------------------------------------
(* SpecDecode: decode_raw_midi on one raw buffer                           *)

Bytes == 0 .. 255

DataSamples == {0, 1, 64, 127, 128, 255}

PitchBendStatus == {224, 230}

RawInputs ==
    {<<>>}
    \cup {<<s>> : s \in Bytes}
    \cup {<<s, d>> : s \in Bytes, d \in DataSamples}
    \cup {<<s, d, e>> : s \in Bytes, d \in DataSamples, e \in DataSamples}
    \cup {<<s, d, e>> : s \in PitchBendStatus, d \in 0 .. 127, e \in 0 .. 127}

InitDecode ==
    /\ pc = "input"
    /\ overflow_checks \in BOOLEAN
    /\ raw_midi \in RawInputs
    /\ decoded = None
    /\ condition = None
    /\ midi_event = None
    /\ matched = None
    /\ routing_table = <<>>
    /\ output_ports = None
    /\ all_output_ports = None
    /\ midi_output_ports = {}
    /\ midi_in = <<>>
    /\ midi_out = <<>>
    /\ handled = <<>>
    /\ control = "none"
    /\ ParserIdle

DecodeRawMidi ==
    /\ pc = "input"
    /\ decoded' = decode_raw_midi(raw_midi, overflow_checks)
    /\ pc' = "decoded"
    /\ UNCHANGED <<overflow_checks, raw_midi, condition, midi_event, matched,
                   routing_table, output_ports, all_output_ports,
                   midi_output_ports, midi_in, midi_out, handled, control>>
    /\ UNCHANGED parser_vars

NextDecode == DecodeRawMidi

SpecDecode == InitDecode /\ [][NextDecode]_vars

----------------------------------------------------------------------------
(* SpecMatch: Condition::matches on one condition and one event            *)

PatternSamples ==
    {None, Some("note-[onf]{2,3}"), Some(".*-aftertouch"), Some("-change"),
     Some("^s")}

ChannelRangeSamples == {None, Some(NumericRange(0, 8)), Some(NumericRange(16, 16))}

ValueRangeSamples ==
    {None, Some(NumericRange(-16, 15)), Some(NumericRange(5, 3)),
     Some(NumericRange(100, 32767))}

VelocityRangeSamples == {None, Some(NumericRange(20, 40))}

ControllerRangeSamples == {None, Some(NumericRange(5, 10))}

ConditionSamples ==
    [event_pattern : PatternSamples,
     channel_pattern : ChannelRangeSamples,
     value_pattern : ValueRangeSamples,
     velocity_pattern : VelocityRangeSamples,
     controller_pattern : ControllerRangeSamples]

ChannelSamples == {1, 8, 9, 16}

NoteSamples == {0, 15, 16, 127}

VelocitySamples == {19, 20, 40, 41}

ControllerSamples == {4, 5, 10, 11}

ByteValueSamples == {0, 15, 16, 100, 255}

PitchSamples == {-8192, -17, -16, 0, 15, 16, 100, 8191}

DatalessKinds ==
    {"SystemExclusive", "MidiTimeCodeQtrFrame", "SongPositionPointer",
     "TuneRequest", "EndOfSysEx", "TimingClock", "Start", "Continue", "Stop",
     "ActiveSensing", "SystemReset", "Undefined"}

EventSamples ==
    [kind : {"NoteOff", "NoteOn"}, channel : ChannelSamples,
     note : NoteSamples, velocity : VelocitySamples]
    \cup [kind : {"PolyphonicAftertouch"}, channel : ChannelSamples,
          note : NoteSamples, pressure : VelocitySamples]
    \cup [kind : {"ControlChange"}, channel : ChannelSamples,
          control_no : ControllerSamples, value : NoteSamples]
    \cup [kind : {"ProgramChange"}, channel : ChannelSamples,
          program : ByteValueSamples]
    \cup [kind : {"ChannelAftertouch"}, channel : ChannelSamples,
          pressure : ByteValueSamples]
    \cup [kind : {"PitchBendChange"}, channel : ChannelSamples,
          value : PitchSamples]
    \cup [kind : {"SongSelect"}, song_num : ByteValueSamples]
    \cup [kind : DatalessKinds]

InitMatch ==
    /\ pc = "input"
    /\ overflow_checks = FALSE
    /\ raw_midi = <<>>
    /\ decoded = None
    /\ condition \in ConditionSamples
    /\ midi_event \in EventSamples
    /\ matched = None
    /\ routing_table = <<>>
    /\ output_ports = None
    /\ all_output_ports = None
    /\ midi_output_ports = {}
    /\ midi_in = <<>>
    /\ midi_out = <<>>
    /\ handled = <<>>
    /\ control = "none"
    /\ ParserIdle

Matches ==
    /\ pc = "input"
    /\ matched' = Some(matches(condition, midi_event))
    /\ pc' = "matched"
    /\ UNCHANGED <<overflow_checks, raw_midi, decoded, condition, midi_event,
                   routing_table, output_ports, all_output_ports,
                   midi_output_ports, midi_in, midi_out, handled, control>>
    /\ UNCHANGED parser_vars

NextMatch == Matches

SpecMatch == InitMatch /\ [][NextMatch]_vars

----------------------------------------------------------------------------
(* SpecRoute: the routing table's two queries                              *)

MaxRules == 3

NoCondition ==
    [event_pattern |-> None, channel_pattern |-> None, value_pattern |-> None,
     velocity_pattern |-> None, controller_pattern |-> None]

RouteConditionSamples ==
    {NoCondition,
     [NoCondition EXCEPT !.event_pattern = Some("note-off")],
     [NoCondition EXCEPT !.channel_pattern = Some(NumericRange(2, 2))]}

ActionsSamples ==
    {<<>>, <<ForwardTo("x"), ForwardTo("x")>>, <<ForwardTo("y"), ForwardTo("x")>>}

RuleSamples ==
    {Rule(c, a) : c \in RouteConditionSamples, a \in ActionsSamples}

RECURSIVE SeqsUpTo(_, _)
SeqsUpTo(S, n) ==
    IF n = 0 THEN {<<>>}
    ELSE LET shorter == SeqsUpTo(S, n - 1)
         IN  shorter \cup {Append(q, x) : q \in shorter, x \in S}

RouteEventSamples ==
    {[kind |-> "NoteOff", channel |-> 1, note |-> 0, velocity |-> 0],
     [kind |-> "NoteOff", channel |-> 2, note |-> 60, velocity |-> 64],
     [kind |-> "NoteOn", channel |-> 2, note |-> 60, velocity |-> 64],
     [kind |-> "TimingClock"]}

InitRoute ==
    /\ pc = "input"
    /\ overflow_checks = FALSE
    /\ raw_midi = <<>>
    /\ decoded = None
    /\ condition = None
    /\ midi_event \in RouteEventSamples
    /\ matched = None
    /\ routing_table \in SeqsUpTo(RuleSamples, MaxRules)
    /\ output_ports = None
    /\ all_output_ports = None
    /\ midi_output_ports = {}
    /\ midi_in = <<>>
    /\ midi_out = <<>>
    /\ handled = <<>>
    /\ control = "none"
    /\ ParserIdle

GetOutputPorts ==
    /\ output_ports = None
    /\ output_ports' = Some(get_output_ports(routing_table, midi_event))
    /\ pc' = "queried"
    /\ UNCHANGED <<overflow_checks, raw_midi, decoded, condition, midi_event,
                   matched, routing_table, all_output_ports,
                   midi_output_ports, midi_in, midi_out, handled, control>>
    /\ UNCHANGED parser_vars

GetAllOutputPorts ==
    /\ all_output_ports = None
    /\ all_output_ports' = Some(get_all_output_ports(routing_table))
    /\ pc' = "queried"
    /\ UNCHANGED <<overflow_checks, raw_midi, decoded, condition, midi_event,
                   matched, routing_table, output_ports,
                   midi_output_ports, midi_in, midi_out, handled, control>>
    /\ UNCHANGED parser_vars

NextRoute == GetOutputPorts \/ GetAllOutputPorts

SpecRoute == InitRoute /\ [][NextRoute]_vars

----------------------------------------------------------------------------
(* Spec: the process callback, one period after another                    *)

MaxEvents == 2

\* Raw events the input port may hold.
RawEventSamples ==
    {<<144, 60, 100>>,      \* note-on, channel 1
     <<133, 123, 25>>,      \* note-off, channel 6
     <<176, 7, 127>>,       \* control-change, channel 1
     <<230, 0, 64>>,        \* pitch-bend, channel 7
     <<224, 255, 255>>,     \* pitch-bend with 8-bit data bytes
     <<159, 60, 100>>,      \* note-on, channel 16
     <<183, 7, 127>>,       \* control-change, channel 8
     <<16, 0, 0>>,          \* status nibble 1
     <<144>>,               \* note-on without its data bytes
     <<248>>}               \* timing clock on the wire

\* The rules of `.* ch0 => zero`, `.* ch16 => sixteen`, `.* ch<8 => low`.
ChannelTable ==
    <<Rule([NoCondition EXCEPT !.event_pattern = Some(".*"),
                               !.channel_pattern = Some(NumericRange(0, 0))],
           <<ForwardTo("zero")>>),
      Rule([NoCondition EXCEPT !.event_pattern = Some(".*"),
                               !.channel_pattern = Some(NumericRange(16, 16))],
           <<ForwardTo("sixteen")>>),
      Rule([NoCondition EXCEPT !.event_pattern = Some(".*"),
                               !.channel_pattern = Some(NumericRange(0, 7))],
           <<ForwardTo("low")>>)>>

TableSamples ==
    {<<>>,
     ChannelTable,
     <<Rule([NoCondition EXCEPT !.event_pattern = Some("note-off")],
            <<ForwardTo("x"), ForwardTo("y")>>),
       Rule([NoCondition EXCEPT !.event_pattern = Some("note-on")],
            <<ForwardTo("a")>>),
       Rule([NoCondition EXCEPT !.event_pattern = Some("note-*")],
            <<ForwardTo("x"), ForwardTo("z")>>)>>,
     <<Rule([NoCondition EXCEPT !.event_pattern = Some(".*")], <<>>),
       Rule([NoCondition EXCEPT !.event_pattern = Some("note-.*"),
                                !.channel_pattern = Some(NumericRange(0, 7))],
            <<ForwardTo("drums"), ForwardTo("drums"), ForwardTo("lead")>>)>>,
     <<Rule([NoCondition EXCEPT !.event_pattern = Some("-change")],
            <<ForwardTo("lead")>>)>>}

Init ==
    /\ pc = "waiting"
    /\ overflow_checks \in BOOLEAN
    /\ raw_midi = <<>>
    /\ decoded = None
    /\ condition = None
    /\ midi_event = None
    /\ matched = None
    /\ routing_table \in TableSamples
    /\ output_ports = None
    /\ all_output_ports = None
    /\ midi_output_ports = register_midi_output_ports(routing_table)
    /\ midi_in = <<>>
    /\ midi_out = create_output_port_writers(midi_output_ports)
    /\ handled = <<>>
    /\ control = "none"
    /\ ParserIdle

\* The JACK engine queues one more event on midi_in for the coming period.
Arrive ==
    /\ pc = "waiting"
    /\ Len(midi_in) < MaxEvents
    /\ \E raw_event \in RawEventSamples : midi_in' = Append(midi_in, raw_event)
    /\ UNCHANGED <<pc, overflow_checks, raw_midi, decoded, condition,
                   midi_event, matched, routing_table, output_ports,
                   all_output_ports, midi_output_ports, midi_out, handled,
                   control>>
    /\ UNCHANGED parser_vars

\* JackRouterProcessHandler::process, one callback.
Process ==
    /\ pc = "waiting"
    /\ LET period == process(midi_in, routing_table, overflow_checks,
                             create_output_port_writers(midi_output_ports),
                             <<>>)
       IN  /\ midi_out' = period.writers
           /\ handled' = period.handled
           /\ control' = period.control
           /\ pc' = IF period.control = "Continue" THEN "returned"
                    ELSE "panicked"
    /\ UNCHANGED <<overflow_checks, raw_midi, decoded, condition, midi_event,
                   matched, routing_table, output_ports, all_output_ports,
                   midi_output_ports, midi_in>>
    /\ UNCHANGED parser_vars

\* The engine starts the next cycle: the period's buffers are gone.
NextPeriod ==
    /\ pc = "returned"
    /\ pc' = "waiting"
    /\ midi_in' = <<>>
    /\ midi_out' = create_output_port_writers(midi_output_ports)
    /\ handled' = <<>>
    /\ control' = "none"
    /\ UNCHANGED <<overflow_checks, raw_midi, decoded, condition, midi_event,
                   matched, routing_table, output_ports, all_output_ports,
                   midi_output_ports>>
    /\ UNCHANGED parser_vars

Next == Arrive \/ Process \/ NextPeriod

Spec == Init /\ [][Next]_vars

----------------------------------------------------------------------------
(* Claims about the routing table (SpecRoute)                              *)

RECURSIVE Offset(_, _, _)
\* How many port names the matching rules before rule i contribute.
Offset(rules, event, i) ==
    IF i <= 1 THEN 0
    ELSE Offset(rules, event, i - 1)
         + (IF matches(rules[i - 1].condition, event)
            THEN Len(rules[i - 1].actions) ELSE 0)

\* C1: get_output_ports returns the concatenation, in rule order, of the
\* port names of every matching rule, each rule's names in action order:
\* the names of matching rule i lie at Offset(i)+1 .. Offset(i)+Len(actions),
\* duplicates kept, and nothing else is in the result (non-matching and
\* zero-action rules contribute nothing and stop nothing).
C1_OutputPortsAreConcatenation ==
    IsSome(output_ports) =>
        LET out == output_ports.some
            n == Len(routing_table)
        IN  /\ Len(out) = Offset(routing_table, midi_event, n + 1)
            /\ \A i \in 1 .. n :
                 matches(routing_table[i].condition, midi_event) =>
                   \A j \in 1 .. Len(routing_table[i].actions) :
                     out[Offset(routing_table, midi_event, i) + j]
                       = routing_table[i].actions[j].output_port

\* A zero-action matching rule, then a non-matching rule with actions, then
\* a matching rule whose names all reach the result, one of them twice.
C1_Witness ==
    /\ IsSome(output_ports)
    /\ Len(routing_table) = 3
    /\ matches(routing_table[1].condition, midi_event)
    /\ routing_table[1].actions = <<>>
    /\ ~matches(routing_table[2].condition, midi_event)
    /\ routing_table[2].actions # <<>>
    /\ matches(routing_table[3].condition, midi_event)
    /\ output_ports.some = <<"x", "x">>

\* C5: get_all_output_ports is the set of the output_port names of the
\* actions of the rules: a name is in it iff some action of some rule uses
\* it, however many do.
C5_AllOutputPortsAreTheActionNames ==
    IsSome(all_output_ports) =>
        /\ \A i \in 1 .. Len(routing_table) :
             \A j \in 1 .. Len(routing_table[i].actions) :
               routing_table[i].actions[j].output_port \in all_output_ports.some
        /\ \A name \in all_output_ports.some :
             \E i \in 1 .. Len(routing_table) :
               \E j \in 1 .. Len(routing_table[i].actions) :
                 routing_table[i].actions[j].output_port = name

\* Two rules use x, one of them twice, y is named second in its rule, and a
\* zero-action rule sits between them.
C5_Witness ==
    /\ IsSome(all_output_ports)
    /\ Len(routing_table) = 3
    /\ routing_table[1].actions = <<ForwardTo("x"), ForwardTo("x")>>
    /\ routing_table[2].actions = <<>>
    /\ routing_table[3].actions = <<ForwardTo("y"), ForwardTo("x")>>
    /\ all_output_ports.some = {"x", "y"}

----------------------------------------------------------------------------
(* Claims about Condition::matches (SpecMatch)                             *)

ChannelVoiceKinds ==
    {"NoteOff", "NoteOn", "PolyphonicAftertouch", "ControlChange",
     "ProgramChange", "ChannelAftertouch", "PitchBendChange"}

\* The field of the event each numeric predicate is tested against, if any.
ChannelFieldOf(event) ==
    IF event.kind \in ChannelVoiceKinds THEN Some(event.channel) ELSE None

ValueFieldOf(event) ==
    CASE event.kind \in {"NoteOff", "NoteOn", "PolyphonicAftertouch"} ->
             Some(event.note)
      [] event.kind \in {"ControlChange", "PitchBendChange"} -> Some(event.value)
      [] event.kind = "ProgramChange" -> Some(event.program)
      [] event.kind = "ChannelAftertouch" -> Some(event.pressure)
      [] event.kind = "SongSelect" -> Some(event.song_num)
      [] OTHER -> None

VelocityFieldOf(event) ==
    CASE event.kind \in {"NoteOff", "NoteOn"} -> Some(event.velocity)
      [] event.kind = "PolyphonicAftertouch" -> Some(event.pressure)
      [] OTHER -> None

ControllerFieldOf(event) ==
    IF event.kind = "ControlChange" THEN Some(event.control_no) ELSE None

\* A predicate holds when it is absent, when the kind has no field for it,
\* or when start <= v <= end for the field's value v.
PredicateHolds(predicate, fieldOf) ==
    IsSome(predicate) /\ IsSome(fieldOf) =>
        /\ predicate.some.start <= fieldOf.some
        /\ fieldOf.some <= predicate.some.end

NameHolds(cond, event) ==
    IsSome(cond.event_pattern) =>
        is_match(cond.event_pattern.some, EventName(event))

\* C2: matches is true iff the name pattern is absent or matches the kind
\* name and every present numeric predicate holds, as a closed range test,
\* of the field of the kind it applies to (for song-select, which the claim
\* does not list, the value predicate applies to song_num).
C2_MatchesIffEveryPredicateHolds ==
    IsSome(matched) =>
        (matched.some <=>
            /\ NameHolds(condition, midi_event)
            /\ PredicateHolds(condition.channel_pattern, ChannelFieldOf(midi_event))
            /\ PredicateHolds(condition.value_pattern, ValueFieldOf(midi_event))
            /\ PredicateHolds(condition.velocity_pattern, VelocityFieldOf(midi_event))
            /\ PredicateHolds(condition.controller_pattern,
                              ControllerFieldOf(midi_event)))

\* A control-change on channel 8 matched with every predicate present and
\* each tested field on a bound of its range.
C2_Witness ==
    /\ IsSome(matched)
    /\ matched.some
    /\ midi_event = [kind |-> "ControlChange", channel |-> 8,
                     control_no |-> 10, value |-> 15]
    /\ condition = [event_pattern |-> Some("-change"),
                    channel_pattern |-> Some(NumericRange(0, 8)),
                    value_pattern |-> Some(NumericRange(-16, 15)),
                    velocity_pattern |-> Some(NumericRange(20, 40)),
                    controller_pattern |-> Some(NumericRange(5, 10))]

\* The kinds with no velocity among those the value predicate is tested on.
NoVelocityKinds ==
    {"ControlChange", "ProgramChange", "ChannelAftertouch", "PitchBendChange"}

\* The condition without one of its predicates.
WithoutVelocity(cond) == [cond EXCEPT !.velocity_pattern = None]

WithoutController(cond) == [cond EXCEPT !.controller_pattern = None]

\* C21: a predicate with no applicable field on the kind of the event does
\* not change the result: the velocity predicate on control-change,
\* program-change, channel-aftertouch and pitch-bend, the controller
\* predicate on every kind but control-change; a system message without
\* data field, or Undefined, matches iff the name pattern is absent or
\* matches its kind name.
C21_InapplicablePredicatesAreIgnored ==
    IsSome(matched) =>
        /\ midi_event.kind \in NoVelocityKinds =>
              matched.some = matches(WithoutVelocity(condition), midi_event)
        /\ midi_event.kind # "ControlChange" =>
              matched.some = matches(WithoutController(condition), midi_event)
        /\ midi_event.kind \in DatalessKinds =>
              matched.some = NameHolds(condition, midi_event)

\* A channel-aftertouch event matched although its pressure is outside the
\* velocity range and the condition has a controller range.
C21_Witness ==
    /\ IsSome(matched)
    /\ matched.some
    /\ midi_event = [kind |-> "ChannelAftertouch", channel |-> 16,
                     pressure |-> 100]
    /\ condition = [event_pattern |-> Some(".*-aftertouch"),
                    channel_pattern |-> Some(NumericRange(16, 16)),
                    value_pattern |-> Some(NumericRange(100, 32767)),
                    velocity_pattern |-> Some(NumericRange(20, 40)),
                    controller_pattern |-> Some(NumericRange(5, 10))]

----------------------------------------------------------------------------
(* Claims about decode_raw_midi (SpecDecode)                               *)

HighNibble(bytes) == bytes[1] \div 16

LowNibble(bytes) == bytes[1] % 16

\* The kind each channel-voice status nibble selects.
VoiceKindOf(nibble) ==
    CASE nibble = 8 -> "NoteOff"
      [] nibble = 9 -> "NoteOn"
      [] nibble = 10 -> "PolyphonicAftertouch"
      [] nibble = 11 -> "ControlChange"
      [] nibble = 12 -> "ProgramChange"
      [] nibble = 13 -> "ChannelAftertouch"
      [] OTHER -> "PitchBendChange"

\* The bytes after the status byte that a kind's fields are read from.
DataBytesOf(nibble) == IF nibble \in {12, 13} THEN 1 ELSE 2

\* C6: a message with status nibble 0x8..0xE (its data bytes present)
\* decodes to the kind the nibble selects, with channel (byte0 & 0x0F) + 1
\* in 1..16 and the data fields equal to byte 1 and byte 2.
C6_ChannelVoiceDecoding ==
    (/\ pc = "decoded"
     /\ Len(raw_midi) >= 1
     /\ HighNibble(raw_midi) \in 8 .. 14
     /\ Len(raw_midi) >= 1 + DataBytesOf(HighNibble(raw_midi)))
    => /\ decoded.tag = "Ok"
       /\ decoded.event.kind = VoiceKindOf(HighNibble(raw_midi))
       /\ decoded.event.channel = LowNibble(raw_midi) + 1
       /\ decoded.event.channel \in 1 .. 16
       /\ decoded.event.kind \in {"NoteOff", "NoteOn"} =>
            /\ decoded.event.note = raw_midi[2]
            /\ decoded.event.velocity = raw_midi[3]
       /\ decoded.event.kind = "PolyphonicAftertouch" =>
            /\ decoded.event.note = raw_midi[2]
            /\ decoded.event.pressure = raw_midi[3]
       /\ decoded.event.kind = "ControlChange" =>
            /\ decoded.event.control_no = raw_midi[2]
            /\ decoded.event.value = raw_midi[3]
       /\ decoded.event.kind = "ProgramChange" =>
            decoded.event.program = raw_midi[2]
       /\ decoded.event.kind = "ChannelAftertouch" =>
            decoded.event.pressure = raw_midi[2]

\* The system sub-kind each low nibble of a 0xF status selects.
SystemKindOf(nibble) ==
    CASE nibble = 0 -> "SystemExclusive"
      [] nibble = 1 -> "MidiTimeCodeQtrFrame"
      [] nibble = 2 -> "SongPositionPointer"
      [] nibble = 3 -> "SongSelect"
      [] nibble = 6 -> "TuneRequest"
      [] nibble = 7 -> "EndOfSysEx"
      [] nibble = 8 -> "TimingClock"
      [] nibble = 10 -> "Start"
      [] nibble = 11 -> "Continue"
      [] nibble = 12 -> "Stop"
      [] nibble = 14 -> "ActiveSensing"
      [] nibble = 15 -> "SystemReset"
      [] OTHER -> "Undefined"

\* C7: a message with status nibble 0xF (all three bytes present) decodes
\* to the system sub-kind its low nibble selects from the table, Undefined
\* for 0x4, 0x5, 0x9 and 0xD.
C7_SystemMessageTable ==
    (/\ pc = "decoded"
     /\ Len(raw_midi) = 3
     /\ HighNibble(raw_midi) = 15)
    => /\ decoded.tag = "Ok"
       /\ decoded.event.kind = SystemKindOf(LowNibble(raw_midi))

\* C8: a pitch-bend message with 7-bit data bytes b1, b2 decodes to the
\* value b2*128 + b1 - 8192, which lies in -8192 .. 8191.
C8_PitchBendValue ==
    (/\ pc = "decoded"
     /\ Len(raw_midi) = 3
     /\ HighNibble(raw_midi) = 14
     /\ raw_midi[2] \in 0 .. 127
     /\ raw_midi[3] \in 0 .. 127)
    => /\ decoded.tag = "Ok"
       /\ decoded.event.kind = "PitchBendChange"
       /\ decoded.event.value = raw_midi[3] * 128 + raw_midi[2] - 8192
       /\ decoded.event.value \in -8192 .. 8191

\* [0xE6, 66, 123] decoded to 7618 by a build that checks overflow.
C8_Witness ==
    /\ pc = "decoded"
    /\ overflow_checks
    /\ raw_midi = <<230, 66, 123>>
    /\ decoded = Ok([kind |-> "PitchBendChange", channel |-> 7, value |-> 7618])

\* C28: a pitch-bend message with any data bytes b1, b2 in 0 .. 255 decodes
\* without abort to the value b2*128 + b1 - 8192 of the integers: no step
\* of the 16-bit computation overflows.
C28_PitchBendDoesNotOverflow ==
    (/\ pc = "decoded"
     /\ Len(raw_midi) = 3
     /\ HighNibble(raw_midi) = 14)
    => /\ decoded.tag = "Ok"
       /\ decoded.event.value = raw_midi[3] * 128 + raw_midi[2] - 8192

\* C9: status nibble 0x0..0x7 gives an error naming the nibble and no
\* event; status nibble 0x8..0xF, all three bytes present, gives an event.
C9_ErrorIffUnknownStatus ==
    (pc = "decoded" /\ Len(raw_midi) >= 1)
    => /\ HighNibble(raw_midi) \in 0 .. 7 =>
            decoded = Err(HighNibble(raw_midi))
       /\ (HighNibble(raw_midi) \in 8 .. 15 /\ Len(raw_midi) = 3) =>
            decoded.tag = "Ok"

\* C10: whatever the buffer's length, decoding gives an event or a decode
\* failure and never aborts on a byte the buffer does not hold.
C10_NoAbortOnShortBuffer ==
    pc = "decoded" => ~(decoded.tag = "Panic" /\ decoded.why = "index")

----------------------------------------------------------------------------
(* Claims about the process callback (Spec)                                *)

ProcessActed == pc \in {"returned", "panicked"}

RECURSIVE Occurrences(_, _)
\* How many times name occurs in the sequence names.
Occurrences(name, names) ==
    IF names = <<>> THEN 0
    ELSE (IF Head(names) = name THEN 1 ELSE 0) + Occurrences(name, Tail(names))

RECURSIVE Copies(_, _)
Copies(raw_event, n) ==
    IF n = 0 THEN <<>> ELSE <<raw_event>> \o Copies(raw_event, n - 1)

RECURSIVE ExpectedBuffer(_, _)
\* What port's buffer holds when every event of events that decodes has
\* been written to it once per occurrence of port among its routed names.
ExpectedBuffer(port, events) ==
    IF events = <<>> THEN <<>>
    ELSE LET result == decode_raw_midi(Head(events), overflow_checks)
         IN  (IF result.tag = "Ok"
              THEN Copies(Head(events),
                          Occurrences(port,
                              get_output_ports(routing_table, result.event)))
              ELSE <<>>)
             \o ExpectedBuffer(port, Tail(events))

\* C3: after a callback, each output port holds, in arrival order, the raw
\* bytes of every pending event that decodes, once per occurrence of the
\* port in get_output_ports(event), and nothing else.
C3_EveryRoutedEventIsWritten ==
    ProcessActed =>
        \A port \in DOMAIN midi_out :
            midi_out[port] = ExpectedBuffer(port, midi_in)

\* C4: in a period with an event whose decoding fails, that event reaches
\* no port, every event after it is still decoded and routed, and the
\* callback returns Continue.
C4_DecodeFailureIsSkipped ==
    ProcessActed =>
        \A i \in 1 .. Len(midi_in) :
            decode_raw_midi(midi_in[i], overflow_checks).tag = "Err" =>
                /\ control = "Continue"
                /\ Len(handled) = Len(midi_in)
                /\ handled[i] = "skipped"
                /\ \A port \in DOMAIN midi_out :
                     \A k \in 1 .. Len(midi_out[port]) :
                       midi_out[port][k] # midi_in[i]
                /\ \A j \in (i + 1) .. Len(midi_in) :
                     handled[j] \in {"skipped", "routed"}

\* Some port is routed more events in the period than its buffer takes.
SomeWriteFails ==
    \E port \in DOMAIN midi_out :
        Len(ExpectedBuffer(port, midi_in)) > BufferCapacity

\* C20: in a period in which a write to an output port's buffer fails (and
\* no event aborts the decoder), the callback still handles every pending
\* event and returns Continue.
C20_WriteFailureDoesNotAbort ==
    (/\ ProcessActed
     /\ SomeWriteFails
     /\ \A i \in 1 .. Len(midi_in) :
           decode_raw_midi(midi_in[i], overflow_checks).tag # "Panic") =>
        /\ control = "Continue"
        /\ Len(handled) = Len(midi_in)

\* The port names the table routes the raw event to, none if it does not
\* decode.
RoutedNames(raw_event, result) ==
    IF result.tag = "Ok" THEN get_output_ports(routing_table, result.event)
    ELSE <<>>

\* Every name is one of get_all_output_ports and has a writer.
AllRegistered(names) ==
    \A k \in 1 .. Len(names) :
        /\ names[k] \in get_all_output_ports(routing_table)
        /\ names[k] \in DOMAIN midi_out

\* C27: every port name get_output_ports returns for an event is a member
\* of get_all_output_ports of the table; so with every such port registered
\* at start-up, in every period every routed name of every pending event
\* has a writer, and send_event_out never takes its branch for a name
\* without writer.
C27_EveryRoutedPortHasAWriter ==
    /\ \A i \in 1 .. Len(midi_in) :
          AllRegistered(RoutedNames(midi_in[i],
                            decode_raw_midi(midi_in[i], overflow_checks)))
    /\ \A j \in 1 .. Len(handled) : handled[j] # "port-not-found"

\* A period has returned in which a note-off was written to two ports, one
\* of them named by two rules, while another port got nothing.
C27_Witness ==
    /\ pc = "returned"
    /\ midi_in = <<<<133, 123, 25>>>>
    /\ handled = <<"routed">>
    /\ midi_out = [port \in {"a", "x", "y", "z"} |->
                      CASE port = "x" -> <<midi_in[1], midi_in[1]>>
                        [] port \in {"y", "z"} -> <<midi_in[1]>>
                        [] OTHER -> <<>>]

----------------------------------------------------------------------------
(* src/parser/parser.rs: one field                                         *)

\* Results of the parsing functions: Ok(..), Err(..) or a panic.
OkField(parsed_field) == [tag |-> "Ok", field |-> parsed_field]

FieldParseError(field_id, content, reason) ==
    [field_id |-> field_id, content |-> content, reason |-> reason]

ErrField(field_id, content, reason) ==
    [tag |-> "Err", error |-> FieldParseError(field_id, content, reason)]

\* FieldFormatError and the foreign errors a FieldParseError may carry
InvalidFormat == [kind |-> "InvalidFormat"]

NumberOutOfRange(min, max) ==
    [kind |-> "NumberOutOfRange", min |-> min, max |-> max]

ParseIntError == [kind |-> "ParseIntError"]

RegexError == [kind |-> "regex::Error"]

\* enum Field
NameField(name_pattern) == [kind |-> "NameField", name_pattern |-> name_pattern]

ValueField(start, end) == [kind |-> "ValueField", start |-> start, end |-> end]

ChannelField(start, end) ==
    [kind |-> "ChannelField", start |-> start, end |-> end]

VelocityField(start, end) ==
    [kind |-> "VelocityField", start |-> start, end |-> end]

ControlNoField(start, end) ==
    [kind |-> "ControlNoField", start |-> start, end |-> end]

\* Text: the i-th character of s, and s from its i-th character on.
CharAt(s, i) == SubSeq(s, i, i)

From(s, i) == SubSeq(s, i, Len(s))

DecimalDigits == {"0", "1", "2", "3", "4", "5", "6", "7", "8", "9"}

DigitValue(c) ==
    CASE c = "0" -> 0 [] c = "1" -> 1 [] c = "2" -> 2 [] c = "3" -> 3
      [] c = "4" -> 4 [] c = "5" -> 5 [] c = "6" -> 6 [] c = "7" -> 7
      [] c = "8" -> 8 [] c = "9" -> 9

\* -?\d+
IsNumber(s) ==
    LET digits == IF Len(s) > 0 /\ CharAt(s, 1) = "-" THEN From(s, 2) ELSE s
    IN  /\ Len(digits) > 0
        /\ \A i \in 1 .. Len(digits) : CharAt(digits, i) \in DecimalDigits

RECURSIVE Magnitude(_)
\* The number a run of decimal digits writes.
Magnitude(digits) ==
    IF Len(digits) = 0 THEN 0
    ELSE 10 * Magnitude(SubSeq(digits, 1, Len(digits) - 1))
         + DigitValue(CharAt(digits, Len(digits)))

\* The integer a text matching -?\d+ writes.
NumberValue(s) ==
    IF CharAt(s, 1) = "-" THEN 0 - Magnitude(From(s, 2)) ELSE Magnitude(s)

\* The letters of the type prefixes, folded as case_insensitive(true) does.
ToLower(c) ==
    CASE c = "C" -> "c" [] c = "H" -> "h" [] c = "V" -> "v" [] c = "E" -> "e"
      [] c = "L" -> "l" [] c = "T" -> "t" [] c = "R" -> "r" [] OTHER -> c

RECURSIVE to_lowercase(_)
to_lowercase(s) ==
    IF Len(s) = 0 THEN "" ELSE ToLower(CharAt(s, 1)) \o to_lowercase(From(s, 2))

\* (?P<type>ch|vel|ctrl) at the start of value, as written; "" when absent.
TypePrefix(value) ==
    IF Len(value) >= 2 /\ to_lowercase(SubSeq(value, 1, 2)) = "ch"
    THEN SubSeq(value, 1, 2)
    ELSE IF Len(value) >= 3 /\ to_lowercase(SubSeq(value, 1, 3)) = "vel"
    THEN SubSeq(value, 1, 3)
    ELSE IF Len(value) >= 4 /\ to_lowercase(SubSeq(value, 1, 4)) = "ctrl"
    THEN SubSeq(value, 1, 4)
    ELSE ""

\* Where body splits as (?P<start>-?\d+)-(?P<end>-?\d+).
RangeSplits(body) ==
    {k \in 2 .. (Len(body) - 1) :
        /\ CharAt(body, k) = "-"
        /\ IsNumber(SubSeq(body, 1, k - 1))
        /\ IsNumber(From(body, k + 1))}

\* No named group takes part in a match.
NoCaptures(type) ==
    [type |-> type, wildcard |-> None, start |-> None, end |-> None,
     lower_bound |-> None, upper_bound |-> None, exact_value |-> None]

\* (?P<start>-?\d+)-(?P<end>-?\d+), body splitting at one of splits
RangeCaptures(type, body, splits) ==
    LET k == CHOOSE split \in splits : TRUE
    IN  Some([NoCaptures(type) EXCEPT
                 !.start = Some(SubSeq(body, 1, k - 1)),
                 !.end = Some(From(body, k + 1))])

\* The alternatives of FIELD_PAT after the type prefix: the named groups
\* that take part in the match of body, if it matches.
Alternatives(type, body) ==
    IF body = "*"
    THEN Some([NoCaptures(type) EXCEPT !.wildcard = Some(body)])
    ELSE IF RangeSplits(body) # {}
    THEN RangeCaptures(type, body, RangeSplits(body))
    ELSE IF Len(body) > 1 /\ CharAt(body, 1) = ">" /\ IsNumber(From(body, 2))
    THEN Some([NoCaptures(type) EXCEPT !.lower_bound = Some(From(body, 2))])
    ELSE IF Len(body) > 1 /\ CharAt(body, 1) = "<" /\ IsNumber(From(body, 2))
    THEN Some([NoCaptures(type) EXCEPT !.upper_bound = Some(From(body, 2))])
    ELSE IF IsNumber(body)
    THEN Some([NoCaptures(type) EXCEPT !.exact_value = Some(body)])
    ELSE None

\* The match with the type prefix type, if value has one and the rest
\* matches.
WithType(value, type) ==
    IF type = "" THEN None
    ELSE Alternatives(Some(type), From(value, Len(type) + 1))

\* The first of two optional matches.
OrElse(first, second) == IF IsSome(first) THEN first ELSE second

\* FIELD_PAT.captures(value): the whole of value must match, with the type
\* prefix or, failing that, without it.
FIELD_PAT(value) ==
    OrElse(WithType(value, TypePrefix(value)), Alternatives(None, value))

RECURSIVE Unclosed(_, _, _)
\* How many more times open occurs in s than close.
Unclosed(s, open, close) ==
    IF Len(s) = 0 THEN 0
    ELSE (CASE CharAt(s, 1) = open -> 1 [] CharAt(s, 1) = close -> -1
            [] OTHER -> 0) + Unclosed(From(s, 2), open, close)

\* Regex::new(value) succeeds: the regex crate rejects, among the tokens
\* the model draws, a repetition operator with nothing to repeat, a group
\* that is never closed and a character class that is never closed.
RegexCompiles(value) ==
    /\ Len(value) > 0 => CharAt(value, 1) \notin {"*", "+", "?"}
    /\ Unclosed(value, "(", ")") = 0
    /\ Unclosed(value, "[", "]") = 0

\* parse_name_pattern_field
parse_name_pattern_field(field_id, value) ==
    IF RegexCompiles(value) THEN OkField(NameField(value))
    ELSE ErrField(field_id, value, RegexError)

Max(a, b) == IF a >= b THEN a ELSE b

Min(a, b) == IF a <= b THEN a ELSE b

\* `x as u8`
AsU8(x) == x % 256

\* get_match_as_i16 on one named group: Ok(None) when the group takes no
\* part, Ok(Some(n)), or the ParseIntError of parse::<i16>.
get_match_as_i16(m) ==
    IF ~IsSome(m) THEN [err |-> FALSE, opt |-> None]
    ELSE IF FitsI16(NumberValue(m.some))
    THEN [err |-> FALSE, opt |-> Some(NumberValue(m.some))]
    ELSE [err |-> TRUE, opt |-> None]

\* Option::unwrap_or
unwrap_or(opt, default) == IF IsSome(opt) THEN opt.some ELSE default

\* parse_value_field once the named groups are read as i16: checks is the
\* build's overflow-checks setting, which decides what `b + 1` and `b - 1`
\* do at the ends of i16.
value_field(field_id, value, value_type_str, start_m, end_m, lower_m, upper_m, exact_m, checks) ==
    LET default_start == IF value_type_str = "" THEN -32768 ELSE 0
        default_end == IF value_type_str = "" THEN 32767 ELSE 255
        overflow ==
            \/ IsSome(lower_m.opt) /\ ~FitsI16(lower_m.opt.some + 1)
            \/ IsSome(upper_m.opt) /\ ~FitsI16(upper_m.opt.some - 1)
        lower_bound == IF IsSome(lower_m.opt)
                       THEN WrapI16(lower_m.opt.some + 1) ELSE default_start
        upper_bound == IF IsSome(upper_m.opt)
                       THEN WrapI16(upper_m.opt.some - 1) ELSE default_end
        start == unwrap_or(exact_m.opt,
                           Max(unwrap_or(start_m.opt, default_start),
                               lower_bound))
        end == unwrap_or(exact_m.opt,
                         Min(unwrap_or(end_m.opt, default_end), upper_bound))
    IN  IF start_m.err \/ end_m.err \/ lower_m.err \/ upper_m.err
           \/ exact_m.err
        THEN ErrField(field_id, value, ParseIntError)
        ELSE IF overflow /\ checks
        THEN Panic("arithmetic overflow")
        ELSE IF value_type_str # ""
                /\ ~(0 <= start /\ start <= end /\ end <= 255)
        THEN ErrField(field_id, value, NumberOutOfRange(0, 255))
        ELSE OkField(CASE value_type_str = "ch" ->
                            ChannelField(AsU8(start), AsU8(end))
                       [] value_type_str = "vel" ->
                            VelocityField(AsU8(start), AsU8(end))
                       [] value_type_str = "ctrl" ->
                            ControlNoField(AsU8(start), AsU8(end))
                       [] OTHER -> ValueField(start, end))

\* parse_value_field
parse_value_field(field_id, value, captures, checks) ==
    value_field(field_id, value,
                IF IsSome(captures.type) THEN captures.type.some ELSE "",
                get_match_as_i16(captures.start),
                get_match_as_i16(captures.end),
                get_match_as_i16(captures.lower_bound),
                get_match_as_i16(captures.upper_bound),
                get_match_as_i16(captures.exact_value),
                checks)

\* parse_field_lhs for field_id > 0, given what FIELD_PAT.captures found
parse_captures(field_id, value, found, checks) ==
    IF IsSome(found) THEN parse_value_field(field_id, value, found.some, checks)
    ELSE ErrField(field_id, value, InvalidFormat)

\* parse_field_lhs going by the shape of the token at every index: a
\* numeric field if FIELD_PAT matches, a name pattern otherwise.
parse_field_lhs_by_shape(field_id, value, checks) ==
    IF IsSome(FIELD_PAT(value))
    THEN parse_captures(field_id, value, FIELD_PAT(value), checks)
    ELSE parse_name_pattern_field(field_id, value)

\* parse_field_lhs
parse_field_lhs(field_id, value, checks) ==
    IF field_id = 0 THEN parse_name_pattern_field(field_id, value)
    ELSE parse_captures(field_id, value, FIELD_PAT(value), checks)

----------------------------------------------------------------------------
(* src/parser/errors.rs: the text of a field error                         *)

DigitChar(d) == SubSeq("0123456789", d + 1, d + 1)

RECURSIVE Decimal(_)
\* The decimal digits of a natural number.
Decimal(n) ==
    IF n < 10 THEN DigitChar(n)
    ELSE Decimal(n \div 10) \o DigitChar(n % 10)

\* Display of an integer, as format!("{}", n) writes it
display(n) == IF n < 0 THEN "-" \o Decimal(-n) ELSE Decimal(n)

\* impl Display for FieldFormatError; min + 1 and max - 1 are i16 sums, of
\* 0 and 255 at the only place that makes a NumberOutOfRange.
FieldFormatError_fmt(reason) ==
    IF reason.kind = "InvalidFormat" THEN "Invalid format"
    ELSE "Value must be between " \o display(WrapI16(reason.min + 1))
             \o " and " \o display(WrapI16(reason.max - 1))

\* Display of the reason of a FieldParseError: a FieldFormatError, or the
\* error of the integer parser or of the regex compiler, whose text is
\* that library's and stands here as the name of its type.
reason_str(reason) ==
    IF reason.kind \in {"InvalidFormat", "NumberOutOfRange"}
    THEN FieldFormatError_fmt(reason)
    ELSE reason.kind

\* impl Display for FieldParseError
FieldParseError_fmt(error) ==
    "Parsing '" \o error.content \o "' in field " \o display(error.field_id)
        \o " failed: " \o reason_str(error.reason)


----------------------------------------------------------------------------
(* src/parser/parser.rs: one rule                                          *)

FORWARD_SYMBOL == "=>"

\* Results of parse_rule: Ok(rule), Err(RuleParseError) or a panic.
OkRule(rule) == [tag |-> "Ok", rule |-> rule]

ErrRule(error) == [tag |-> "Err", error |-> error]

\* RuleParseError::InvalidFields
InvalidFields(line_no, invalid_fields) ==
    [line_no |-> line_no, invalid_fields |-> invalid_fields]

\* ConditionBuilder::new
ConditionBuilder_new ==
    [event_pattern |-> None, channel_pattern |-> None, value_pattern |-> None,
     velocity_pattern |-> None, control_no_pattern |-> None]

\* ConditionBuilder::build
build(builder) ==
    [event_pattern |-> builder.event_pattern,
     channel_pattern |-> builder.channel_pattern,
     value_pattern |-> builder.value_pattern,
     velocity_pattern |-> builder.velocity_pattern,
     controller_pattern |-> builder.control_no_pattern]

\* RuleParser::new
RuleParser_new ==
    [condition_builder |-> ConditionBuilder_new, errors |-> <<>>,
     output_names |-> <<>>, state |-> "ParseLeftHandSide"]

\* parse_lhs keeping the first field of a slot instead of the last.
store_field_first_wins(self, result) ==
    CASE result.tag = "Panic" -> [panic |-> TRUE, self |-> self]
      [] result.tag = "Err" ->
            [panic |-> FALSE,
             self |-> [self EXCEPT !.errors = Append(@, result.error)]]
      [] result.tag = "Ok" /\ result.field.kind = "NameField" ->
            [panic |-> FALSE,
             self |-> [self EXCEPT !.condition_builder.event_pattern =
                          IF IsSome(@) THEN @
                          ELSE Some(result.field.name_pattern)]]
      [] result.tag = "Ok" /\ result.field.kind = "ValueField" ->
            [panic |-> FALSE,
             self |-> [self EXCEPT !.condition_builder.value_pattern =
                          IF IsSome(@) THEN @
                          ELSE Some(NumericRange(result.field.start,
                                                 result.field.end))]]
      [] result.tag = "Ok" /\ result.field.kind = "ChannelField" ->
            [panic |-> FALSE,
             self |-> [self EXCEPT !.condition_builder.channel_pattern =
                          IF IsSome(@) THEN @
                          ELSE Some(NumericRange(result.field.start,
                                                 result.field.end))]]
      [] result.tag = "Ok" /\ result.field.kind = "VelocityField" ->
            [panic |-> FALSE,
             self |-> [self EXCEPT !.condition_builder.velocity_pattern =
                          IF IsSome(@) THEN @
                          ELSE Some(NumericRange(result.field.start,
                                                 result.field.end))]]
      [] result.tag = "Ok" /\ result.field.kind = "ControlNoField" ->
            [panic |-> FALSE,
             self |-> [self EXCEPT !.condition_builder.control_no_pattern =
                          IF IsSome(@) THEN @
                          ELSE Some(NumericRange(result.field.start,
                                                 result.field.end))]]

\* RuleParser::parse_lhs, the match on what parse_field_lhs returned; a
\* panic in parse_field_lhs unwinds through it.
store_field(self, result) ==
    CASE result.tag = "Panic" -> [panic |-> TRUE, self |-> self]
      [] result.tag = "Err" ->
            [panic |-> FALSE,
             self |-> [self EXCEPT !.errors = Append(@, result.error)]]
      [] result.tag = "Ok" /\ result.field.kind = "NameField" ->
            [panic |-> FALSE,
             self |-> [self EXCEPT !.condition_builder.event_pattern =
                          Some(result.field.name_pattern)]]
      [] result.tag = "Ok" /\ result.field.kind = "ValueField" ->
            [panic |-> FALSE,
             self |-> [self EXCEPT !.condition_builder.value_pattern =
                          Some(NumericRange(result.field.start,
                                            result.field.end))]]
      [] result.tag = "Ok" /\ result.field.kind = "ChannelField" ->
            [panic |-> FALSE,
             self |-> [self EXCEPT !.condition_builder.channel_pattern =
                          Some(NumericRange(result.field.start,
                                            result.field.end))]]
      [] result.tag = "Ok" /\ result.field.kind = "VelocityField" ->
            [panic |-> FALSE,
             self |-> [self EXCEPT !.condition_builder.velocity_pattern =
                          Some(NumericRange(result.field.start,
                                            result.field.end))]]
      [] result.tag = "Ok" /\ result.field.kind = "ControlNoField" ->
            [panic |-> FALSE,
             self |-> [self EXCEPT !.condition_builder.control_no_pattern =
                          Some(NumericRange(result.field.start,
                                            result.field.end))]]

\* RuleParser::parse_lhs
parse_lhs(self, field_id, value, checks) ==
    store_field(self, parse_field_lhs(field_id, value, checks))

\* Only an output name not yet pushed is pushed.
parse_rhs_unique(self, field_id, value) ==
    IF \E i \in 1 .. Len(self.output_names) : self.output_names[i] = value
    THEN self
    ELSE [self EXCEPT !.output_names = Append(@, value)]

\* RuleParser::parse_rhs
parse_rhs(self, field_id, value) ==
    [self EXCEPT !.output_names = Append(@, value)]

\* The separator recognised on the left-hand side only.
parse_token_first_separator_only(self, field_id, value, checks) ==
    IF self.state = "ParseLeftHandSide"
    THEN IF value = FORWARD_SYMBOL
         THEN [panic |-> FALSE,
               self |-> [self EXCEPT !.state = "ParseRightHandSide"]]
         ELSE parse_lhs(self, field_id, value, checks)
    ELSE [panic |-> FALSE, self |-> parse_rhs(self, field_id, value)]

\* RuleParser::parse, the body of its loop over the tokens
parse_token(self, field_id, value, checks) ==
    IF value = FORWARD_SYMBOL
    THEN [panic |-> FALSE,
          self |-> [self EXCEPT !.state = "ParseRightHandSide"]]
    ELSE IF self.state = "ParseLeftHandSide"
    THEN parse_lhs(self, field_id, value, checks)
    ELSE [panic |-> FALSE, self |-> parse_rhs(self, field_id, value)]

\* RuleParser::parse, after its loop
parse_end(self, line_no) ==
    IF Len(self.errors) > 0
    THEN ErrRule(InvalidFields(line_no, self.errors))
    ELSE OkRule(Rule(build(self.condition_builder),
                     [i \in 1 .. Len(self.output_names) |->
                         ForwardTo(self.output_names[i])]))

RECURSIVE parse_loop(_, _, _, _)
RECURSIVE parse_next(_, _, _, _)
\* RuleParser::parse, its loop from token field_id on
parse_loop(self, line, field_id, checks) ==
    IF field_id >= Len(line) THEN [panic |-> FALSE, self |-> self]
    ELSE parse_next(parse_token(self, field_id, line[field_id + 1], checks),
                    line, field_id, checks)

\* The loop after the iteration that gave step.
parse_next(step, line, field_id, checks) ==
    IF step.panic THEN step
    ELSE parse_loop(step.self, line, field_id + 1, checks)

\* What parse returns after the run of its loop.
parse_return(run, line_no) ==
    IF run.panic THEN Panic("arithmetic overflow")
    ELSE parse_end(run.self, line_no)

\* parse_rule: RuleParser::new().parse(line_no, line), line given as the
\* tokens line.trim().split_whitespace() yields
parse_rule(line_no, line, checks) ==
    parse_return(parse_loop(RuleParser_new, line, 0, checks), line_no)

----------------------------------------------------------------------------
(* src/parser/parser.rs: one file                                          *)

Whitespace == {" ", "\t"}

RECURSIVE trim_start(_)
trim_start(s) ==
    IF Len(s) > 0 /\ CharAt(s, 1) \in Whitespace THEN trim_start(From(s, 2))
    ELSE s

RECURSIVE trim_end(_)
trim_end(s) ==
    IF Len(s) > 0 /\ CharAt(s, Len(s)) \in Whitespace
    THEN trim_end(SubSeq(s, 1, Len(s) - 1))
    ELSE s

\* str::trim
trim(s) == trim_end(trim_start(s))

RECURSIVE WordLength(_)
\* Length of the run of non-whitespace characters s starts with.
WordLength(s) ==
    IF Len(s) = 0 \/ CharAt(s, 1) \in Whitespace THEN 0
    ELSE 1 + WordLength(From(s, 2))

RECURSIVE split_whitespace(_)
\* str::split_whitespace
split_whitespace(s) ==
    LET rest == trim_start(s)
    IN  IF Len(rest) = 0 THEN <<>>
        ELSE <<SubSeq(rest, 1, WordLength(rest))>>
             \o split_whitespace(From(rest, WordLength(rest) + 1))

\* What the reader yields for one line: Ok(text) or Err(io::Error).
ReadOk(text) == [tag |-> "Ok", line |-> text]

ReadErr == [tag |-> "Err"]

\* Results of load_rules_from_file: Ok(rules), Err(io::Error),
\* Err(RuleConfigError) or a panic.
LoadOk(rules) == [tag |-> "Ok", rules |-> rules]

LoadErr(error) == [tag |-> "Err", error |-> error]

IoError == [kind |-> "io::Error"]

RuleConfigError(errors) == [kind |-> "RuleConfigError", errors |-> errors]

\* load_rules_from_file, its locals before the loop
LoaderLocals == [line_no |-> 0, rules |-> <<>>, errors |-> <<>>]

\* The parse errors collected so far win over the failure to read a line.
propagate_after_parse_errors(locals) ==
    IF locals.errors = <<>> THEN LoadErr(IoError)
    ELSE LoadErr(RuleConfigError(locals.errors))

\* line_result? on Err(io::Error): the function returns it at once.
propagate(locals) == LoadErr(IoError)

\* The index among the lines that are not blank.
enumerate_nonblank(locals) == Len(locals.rules) + Len(locals.errors)

\* lines().enumerate(): the index of the line the loop is at.
enumerate(locals) == locals.line_no

\* load_rules_from_file, the match on what parse_rule returned for the
\* line at index locals.line_no; a panic in parse_rule unwinds through it.
push(locals, result) ==
    CASE result.tag = "Panic" ->
            [next |-> "panic", locals |-> locals, result |-> result]
      [] result.tag = "Ok" ->
            [next |-> "continue",
             locals |-> [locals EXCEPT !.line_no = @ + 1,
                                       !.rules = Append(@, result.rule)],
             result |-> None]
      [] result.tag = "Err" ->
            [next |-> "continue",
             locals |-> [locals EXCEPT !.line_no = @ + 1,
                                       !.errors = Append(@, result.error)],
             result |-> None]

\* The loop body for a line the reader could read, trimmed.
load_text(locals, text, checks) ==
    IF text = ""
    THEN [next |-> "continue", locals |-> [locals EXCEPT !.line_no = @ + 1],
          result |-> None]
    ELSE push(locals,
              parse_rule(enumerate(locals), split_whitespace(trim(text)),
                         checks))

\* load_rules_from_file, the body of its loop for the line the reader
\* yields at index locals.line_no: the loop goes on, the function returns
\* (line_result?), or parse_rule panics.
load_line(locals, line_result, checks) ==
    IF line_result.tag = "Err"
    THEN [next |-> "return", locals |-> locals, result |-> propagate(locals)]
    ELSE load_text(locals, trim(line_result.line), checks)

\* load_rules_from_file, after its loop
load_end(locals) ==
    IF locals.errors = <<>> THEN LoadOk(locals.rules)
    ELSE LoadErr(RuleConfigError(locals.errors))

RECURSIVE load_loop(_, _, _)
RECURSIVE load_next(_, _, _)
load_loop(locals, lines, checks) ==
    IF locals.line_no >= Len(lines) THEN load_end(locals)
    ELSE load_next(load_line(locals, lines[locals.line_no + 1], checks),
                   lines, checks)

\* The loop after the iteration that gave step.
load_next(step, lines, checks) ==
    IF step.next = "continue" THEN load_loop(step.locals, lines, checks)
    ELSE step.result

\* load_rules_from_file; file says whether File::open succeeds and what
\* the reader yields line by line.
load_rules_from_file(file, checks) ==
    IF ~file.opens THEN LoadErr(IoError)
    ELSE load_loop(LoaderLocals, file.lines, checks)

----------------------------------------------------------------------------
(* SpecField: parse_field_lhs on one token                                 *)

\* Type prefixes as a rule file may write them.
PrefixSamples == {"", "ch", "vel", "ctrl", "CH", "Vel", "CTRL"}

\* Numbers as a rule file may write them, in and out of u8 and of i16.
NumberSamples ==
    {"0", "5", "12", "127", "255", "256", "300", "007", "-1", "-5",
     "32767", "32768", "-32768", "-32769"}

RangeEndSamples == {"-5", "0", "5", "12", "255", "300"}

BodySamples ==
    {"*"} \cup NumberSamples
          \cup {">" \o n : n \in NumberSamples}
          \cup {"<" \o n : n \in NumberSamples}
          \cup {a \o "-" \o b : a, b \in RangeEndSamples}

\* Tokens FIELD_PAT does not match.
MalformedSamples ==
    {"ch", "5-", "x5", "5-3-2", ">", "=>", "note-on", "+5", "(((", "ch5x",
     "5..7", "chvel5", "*-aftertouch", "no[te-*", "v0"}

TokenSamples ==
    {prefix \o body : prefix \in PrefixSamples, body \in BodySamples}
        \cup MalformedSamples

FieldIdSamples == {0, 1, 3}

InitField ==
    /\ pc = "token"
    /\ overflow_checks \in BOOLEAN
    /\ RouterIdle
    /\ token_id \in FieldIdSamples
    /\ token \in TokenSamples
    /\ token_field = None
    /\ field_text = None
    /\ rule_line_no = 0
    /\ rule_line = <<>>
    /\ parser = None
    /\ parsed = None
    /\ rule_file = None
    /\ loader = None
    /\ loaded = None

\* parse_field_lhs(field_id, value)
ParseFieldLhs ==
    /\ pc = "token"
    /\ pc' = "field"
    /\ token_field' = parse_field_lhs(token_id, token, overflow_checks)
    /\ UNCHANGED <<overflow_checks, token_id, token, field_text, rule_line_no,
                   rule_line,
                   parser, parsed, rule_file, loader, loaded>>
    /\ UNCHANGED router_vars

\* The rejected token is reported: format!("{}", error)
DisplayFieldError ==
    /\ pc = "field"
    /\ token_field.tag = "Err"
    /\ pc' = "shown"
    /\ field_text' = Some(FieldParseError_fmt(token_field.error))
    /\ UNCHANGED <<overflow_checks, token_id, token, token_field,
                   rule_line_no, rule_line, parser, parsed, rule_file,
                   loader, loaded>>
    /\ UNCHANGED router_vars

NextField == ParseFieldLhs \/ DisplayFieldError

SpecField == InitField /\ [][NextField]_vars

----------------------------------------------------------------------------
(* SpecParse: RuleParser::parse, one token after another                   *)

MaxTokens == 4

\* Tokens of a line: a name pattern, the separator, two channel fields and
\* two untyped fields, a token that is no regex and no field, an exclusive
\* bound at the end of i16, an output name.
LineTokenSamples ==
    {"note-.*", "=>", "ch5", "ch16", "<40", "(((", ">32767", "kb-out"}

LineSamples == SeqsUpTo(LineTokenSamples, MaxTokens)

LineNoSamples == {0, 127}

InitParse ==
    /\ pc = "line"
    /\ overflow_checks \in BOOLEAN
    /\ RouterIdle
    /\ token_id = 0
    /\ token = ""
    /\ token_field = None
    /\ field_text = None
    /\ rule_line_no \in LineNoSamples
    /\ rule_line \in LineSamples
    /\ parser = [self |-> RuleParser_new, field_id |-> 0]
    /\ parsed = None
    /\ rule_file = None
    /\ loader = None
    /\ loaded = None

\* The loop of RuleParser::parse has run one iteration, which gave step.
TakeToken(step) ==
    /\ parser' = [self |-> step.self, field_id |-> parser.field_id + 1]
    /\ pc' = IF step.panic THEN "panicked" ELSE "line"
    /\ parsed' = IF step.panic THEN Panic("arithmetic overflow") ELSE parsed
    /\ UNCHANGED <<overflow_checks, token_id, token, token_field, field_text,
                   rule_line_no, rule_line, rule_file, loader, loaded>>
    /\ UNCHANGED router_vars

\* value == FORWARD_SYMBOL
Forward ==
    /\ pc = "line"
    /\ parser.field_id < Len(rule_line)
    /\ rule_line[parser.field_id + 1] = FORWARD_SYMBOL
    /\ TakeToken(parse_token(parser.self, parser.field_id,
                             rule_line[parser.field_id + 1], overflow_checks))

\* RuleParserState::ParseLeftHandSide => self.parse_lhs(field_id, value)
ParseLhs ==
    /\ pc = "line"
    /\ parser.field_id < Len(rule_line)
    /\ rule_line[parser.field_id + 1] # FORWARD_SYMBOL
    /\ parser.self.state = "ParseLeftHandSide"
    /\ TakeToken(parse_token(parser.self, parser.field_id,
                             rule_line[parser.field_id + 1], overflow_checks))

\* RuleParserState::ParseRightHandSide => self.parse_rhs(field_id, value)
ParseRhs ==
    /\ pc = "line"
    /\ parser.field_id < Len(rule_line)
    /\ rule_line[parser.field_id + 1] # FORWARD_SYMBOL
    /\ parser.self.state = "ParseRightHandSide"
    /\ TakeToken(parse_token(parser.self, parser.field_id,
                             rule_line[parser.field_id + 1], overflow_checks))

\* The loop is over: the errors, or the rule.
ParseEnd ==
    /\ pc = "line"
    /\ parser.field_id = Len(rule_line)
    /\ pc' = "parsed"
    /\ parsed' = parse_end(parser.self, rule_line_no)
    /\ UNCHANGED <<overflow_checks, token_id, token, token_field, field_text,
                   rule_line_no, rule_line, parser, rule_file, loader,
                   loaded>>
    /\ UNCHANGED router_vars

NextParse == Forward \/ ParseLhs \/ ParseRhs \/ ParseEnd

SpecParse == InitParse /\ [][NextParse]_vars

----------------------------------------------------------------------------
(* SpecLoad: load_rules_from_file, one line after another                  *)

MaxLines == 3

\* What the reader may yield for a line: blank and whitespace-only lines,
\* rules, lines with field errors, a line with an exclusive bound at the
\* end of i16, a line that cannot be read.
LineResultSamples ==
    {ReadOk(""),
     ReadOk(" \t "),
     ReadOk("note-.* ch5 <40  => kb-out"),
     ReadOk("\t.*-aftertouch 127 =>"),
     ReadOk("  ((( v0 ch-1 => "),
     ReadOk("note-.* ch300 => kb-out"),
     ReadOk("note-.* >32767 => kb-out"),
     ReadErr}

FileSamples ==
    [opens : BOOLEAN, lines : SeqsUpTo(LineResultSamples, MaxLines)]

InitLoad ==
    /\ pc = "closed"
    /\ overflow_checks \in BOOLEAN
    /\ RouterIdle
    /\ token_id = 0
    /\ token = ""
    /\ token_field = None
    /\ field_text = None
    /\ rule_line_no = 0
    /\ rule_line = <<>>
    /\ parser = None
    /\ parsed = None
    /\ rule_file \in FileSamples
    /\ loader = LoaderLocals
    /\ loaded = None

\* File::open(file_path)? fails.
OpenFails ==
    /\ pc = "closed"
    /\ ~rule_file.opens
    /\ pc' = "done"
    /\ loaded' = LoadErr(IoError)
    /\ UNCHANGED <<overflow_checks, rule_file, loader>>
    /\ UNCHANGED <<token_id, token, token_field, field_text, rule_line_no, rule_line,
                   parser, parsed>>
    /\ UNCHANGED router_vars

\* File::open(file_path)? succeeds.
Open ==
    /\ pc = "closed"
    /\ rule_file.opens
    /\ pc' = "reading"
    /\ UNCHANGED <<overflow_checks, rule_file, loader, loaded>>
    /\ UNCHANGED <<token_id, token, token_field, field_text, rule_line_no, rule_line,
                   parser, parsed>>
    /\ UNCHANGED router_vars

\* The loop over the lines has run one iteration, which gave step.
TakeLine(step) ==
    /\ loader' = step.locals
    /\ loaded' = IF step.next = "continue" THEN loaded ELSE step.result
    /\ pc' = CASE step.next = "continue" -> "reading"
               [] step.next = "return" -> "done"
               [] step.next = "panic" -> "panicked"
    /\ UNCHANGED <<overflow_checks, rule_file>>
    /\ UNCHANGED <<token_id, token, token_field, field_text, rule_line_no, rule_line,
                   parser, parsed>>
    /\ UNCHANGED router_vars

\* One iteration of the loop over the lines.
ReadLine ==
    /\ pc = "reading"
    /\ loader.line_no < Len(rule_file.lines)
    /\ TakeLine(load_line(loader, rule_file.lines[loader.line_no + 1],
                          overflow_checks))

\* The reader has no more lines: the rules, or the errors.
Return ==
    /\ pc = "reading"
    /\ loader.line_no = Len(rule_file.lines)
    /\ pc' = "done"
    /\ loaded' = load_end(loader)
    /\ UNCHANGED <<overflow_checks, rule_file, loader>>
    /\ UNCHANGED <<token_id, token, token_field, field_text, rule_line_no, rule_line,
                   parser, parsed>>
    /\ UNCHANGED router_vars

NextLoad == OpenFails \/ Open \/ ReadLine \/ Return

SpecLoad == InitLoad /\ [][NextLoad]_vars

----------------------------------------------------------------------------
(* Claims about parse_field_lhs (SpecField)                                *)

\* The type prefix a token carries, folded to lower case; "" when absent.
TypeOf(captures) ==
    IF IsSome(captures.type) THEN to_lowercase(captures.type.some) ELSE ""

KindOf(captures) ==
    CASE TypeOf(captures) = "ch" -> "ChannelField"
      [] TypeOf(captures) = "vel" -> "VelocityField"
      [] TypeOf(captures) = "ctrl" -> "ControlNoField"
      [] OTHER -> "ValueField"

\* The integers a token writes.
WrittenNumbers(captures) ==
    {NumberValue(captures[group].some) :
        group \in {g \in {"start", "end", "lower_bound", "upper_bound",
                          "exact_value"} : IsSome(captures[g])}}

\* The range the grammar gives a token, over the integers.
GrammarRange(captures) ==
    LET ds == IF TypeOf(captures) = "" THEN -32768 ELSE 0
        de == IF TypeOf(captures) = "" THEN 32767 ELSE 255
    IN  CASE IsSome(captures.wildcard) -> NumericRange(ds, de)
          [] IsSome(captures.start) ->
                NumericRange(NumberValue(captures.start.some),
                             NumberValue(captures.end.some))
          [] IsSome(captures.lower_bound) ->
                NumericRange(NumberValue(captures.lower_bound.some) + 1, de)
          [] IsSome(captures.upper_bound) ->
                NumericRange(ds, NumberValue(captures.upper_bound.some) - 1)
          [] OTHER ->
                NumericRange(NumberValue(captures.exact_value.some),
                             NumberValue(captures.exact_value.some))

WithinByte(range) ==
    0 <= range.start /\ range.start <= range.end /\ range.end <= 255

FieldParsed == pc = "field" /\ token_id >= 1

\* C11: a token at index >= 1 that fits the grammar, its integers within
\* i16, parses to the field kind its prefix selects and to the range
\* [ds, de] for *, [A, B] for A-B, [L+1, de] for >L, [ds, U-1] for <U and
\* [N, N] for N (a typed range outside 0..255 being rejected); a token that
\* fits no shape fails with InvalidFormat.
C11_FieldRanges ==
    FieldParsed =>
        LET captures == FIELD_PAT(token)
        IN  IF ~IsSome(captures)
            THEN token_field = ErrField(token_id, token, InvalidFormat)
            ELSE (\A n \in WrittenNumbers(captures.some) : FitsI16(n)) =>
                    LET range == GrammarRange(captures.some)
                    IN  IF TypeOf(captures.some) # "" /\ ~WithinByte(range)
                        THEN token_field.tag = "Err"
                        ELSE token_field =
                                OkField([kind |-> KindOf(captures.some),
                                         start |-> range.start,
                                         end |-> range.end])

\* C12: a typed token parses if and only if its range after the bound
\* adjustment lies within 0 <= start <= end <= 255, and otherwise fails with
\* NumberOutOfRange carrying its index and text; every channel, velocity and
\* controller range that is produced lies within these bounds.
C12_TypedFieldsWithinByteRange ==
    FieldParsed =>
        /\ (token_field.tag = "Ok"
            /\ token_field.field.kind \in
                 {"ChannelField", "VelocityField", "ControlNoField"})
              => WithinByte(token_field.field)
        /\ LET captures == FIELD_PAT(token)
           IN  (IsSome(captures) /\ TypeOf(captures.some) # "") =>
                   IF WithinByte(GrammarRange(captures.some))
                   THEN token_field.tag = "Ok"
                   ELSE token_field =
                          ErrField(token_id, token, NumberOutOfRange(0, 255))

\* C13: a token parses to the same field, of the same kind and range, as the
\* token with its type prefix written in lower case.
C13_PrefixCaseIsIgnored ==
    FieldParsed =>
        LET lower == parse_field_lhs(token_id, to_lowercase(token),
                                     overflow_checks)
        IN  IF lower.tag = "Ok" THEN token_field = lower
            ELSE token_field.tag = lower.tag

\* Numbers around the ends of u8, to find what a typed field accepts.
TypedProbe == {-1, 0, 1, 254, 255, 256}

\* The probed numbers a field with the type prefix accepts as exact value.
AcceptedExact(prefix) ==
    {n \in TypedProbe :
        parse_field_lhs(1, prefix \o display(n), overflow_checks).tag = "Ok"}

Lowest(S) == CHOOSE n \in S : \A m \in S : n <= m

Highest(S) == CHOOSE n \in S : \A m \in S : m <= n

EndsWith(text, suffix) ==
    /\ Len(suffix) <= Len(text)
    /\ SubSeq(text, Len(text) - Len(suffix) + 1, Len(text)) = suffix

\* The text names the lowest and the highest of the accepted numbers.
ShowsBoundsOf(text, accepted) ==
    EndsWith(text, "Value must be between " \o display(Lowest(accepted))
                       \o " and " \o display(Highest(accepted)))

\* C23: the text shown for a typed field rejected as out of range names
\* the effective inclusive bounds, the lowest and the highest value a field
\* of that type accepts (0 and 255).
C23_ShownBoundsAreEffective ==
    (pc = "shown" /\ token_field.error.reason.kind = "NumberOutOfRange") =>
        ShowsBoundsOf(field_text.some, AcceptedExact(TypePrefix(token)))

\* The number written in a named group.
Written(group) == NumberValue(group.some)

\* The token is `>L` or `<U`, typed or not, with a bound within i16, and
\* the field made of it keeps values up to L, or from U on, out.
KeepsBoundOut(captures, result) ==
    /\ (IsSome(captures.lower_bound) /\ FitsI16(Written(captures.lower_bound)))
          => /\ result.tag # "Panic"
             /\ result.tag = "Ok" =>
                   result.field.start > Written(captures.lower_bound)
    /\ (IsSome(captures.upper_bound) /\ FitsI16(Written(captures.upper_bound)))
          => /\ result.tag # "Panic"
             /\ result.tag = "Ok" =>
                   result.field.end < Written(captures.upper_bound)

\* C25: for every bound within i16, the ends included, the adjustment of an
\* exclusive bound does not overflow: `>L` starts above L and `<U` ends
\* below U (or the token is rejected), so `>32767` and `<-32768` never give
\* a range that wraps around.
C25_ExclusiveBoundsDoNotOverflow ==
    (FieldParsed /\ IsSome(FIELD_PAT(token))) =>
        KeepsBoundOut(FIELD_PAT(token).some, token_field)

\* The events of the kinds that have a value field.
ValueEvents == {event \in EventSamples : event.kind \notin DatalessKinds}

\* The condition of a rule that holds nothing but the value range.
ValueCondition(parsed_field) ==
    [event_pattern |-> None, channel_pattern |-> None,
     value_pattern |-> Some(NumericRange(parsed_field.start, parsed_field.end)),
     velocity_pattern |-> None, controller_pattern |-> None]

\* The token is accepted as an untyped value field; written `A-B` with
\* A > B it keeps both ends, and its rule matches no event with a value.
AcceptedUnchecked(captures, result) ==
    /\ result.tag = "Ok"
    /\ result.field.kind = "ValueField"
    /\ (IsSome(captures.start) /\ Written(captures.start) > Written(captures.end))
          => /\ result.field.start = Written(captures.start)
             /\ result.field.end = Written(captures.end)
             /\ \A event \in ValueEvents :
                   ~matches(ValueCondition(result.field), event)

\* C26: an untyped numeric token whose integers are within i16 is never
\* rejected as out of range: negative bounds and bounds above 255 are
\* accepted, and so is `A-B` with A > B, whose range no value satisfies, so
\* that a rule holding it matches no event of a kind with a value field.
C26_UntypedFieldsAreNotBoundsChecked ==
    (/\ FieldParsed
     /\ IsSome(FIELD_PAT(token))
     /\ ~IsSome(FIELD_PAT(token).some.type)
     /\ \A n \in WrittenNumbers(FIELD_PAT(token).some) : FitsI16(n)) =>
        AcceptedUnchecked(FIELD_PAT(token).some, token_field)

----------------------------------------------------------------------------
(* Claims about RuleParser::parse (SpecParse)                              *)

\* Position of the first separator among tokens, or one past their end.
FirstForward(tokens) ==
    IF \E i \in 1 .. Len(tokens) : tokens[i] = FORWARD_SYMBOL
    THEN CHOOSE i \in 1 .. Len(tokens) :
            /\ tokens[i] = FORWARD_SYMBOL
            /\ \A j \in 1 .. (i - 1) : tokens[j] # FORWARD_SYMBOL
    ELSE Len(tokens) + 1

\* The tokens after the first separator.
RightHandSide(tokens) == SubSeq(tokens, FirstForward(tokens) + 1, Len(tokens))

\* The tokens that are not separators.
NamesOnly(tokens) == SelectSeq(tokens, LAMBDA name : name # FORWARD_SYMBOL)

\* The tokens the loop has taken.
Taken == SubSeq(rule_line, 1, parser.field_id)

Parsing == pc \in {"line", "parsed"}

TwoSeparators ==
    \E i, j \in 1 .. Len(rule_line) :
        i < j /\ rule_line[i] = FORWARD_SYMBOL /\ rule_line[j] = FORWARD_SYMBOL

Forwards(names) == [i \in 1 .. Len(names) |-> ForwardTo(names[i])]

RuleParsed == pc = "parsed" /\ parsed.tag = "Ok"

RECURSIVE InvalidFieldsOf(_, _)
\* One field error per token before the first separator that
\* parse_field_lhs rejects, from index field_id on: its index, its text and
\* the reason.
InvalidFieldsOf(tokens, field_id) ==
    IF field_id + 1 >= FirstForward(tokens) THEN <<>>
    ELSE LET result == parse_field_lhs(field_id, tokens[field_id + 1],
                                       overflow_checks)
         IN  (IF result.tag = "Err"
              THEN <<FieldParseError(field_id, tokens[field_id + 1],
                                     result.error.reason)>>
              ELSE <<>>)
             \o InvalidFieldsOf(tokens, field_id + 1)

\* C16: a line with invalid left-hand-side tokens gives one RuleParseError
\* with the line number handed in and one field error per invalid token, in
\* token order, with index and text, and no rule; a line without invalid
\* token gives a rule.
C16_FieldErrorsAccumulate ==
    pc \in {"parsed", "panicked"} =>
        IF InvalidFieldsOf(rule_line, 0) = <<>>
        THEN parsed.tag = "Ok"
        ELSE parsed = ErrRule(InvalidFields(rule_line_no,
                                            InvalidFieldsOf(rule_line, 0)))

\* What parse_field_lhs makes of each token before the first separator.
LeftHandFields(tokens) ==
    [i \in 1 .. Min(Len(tokens), FirstForward(tokens) - 1) |->
        parse_field_lhs(i - 1, tokens[i], overflow_checks)]

\* What a field puts into its slot.
SlotValue(parsed_field) ==
    IF parsed_field.kind = "NameField" THEN Some(parsed_field.name_pattern)
    ELSE Some(NumericRange(parsed_field.start, parsed_field.end))

\* The slot of a kind after the tokens: the last accepted field of the
\* kind, nothing without one.
LastField(results, kind) ==
    LET targeting == {i \in DOMAIN results :
                         /\ results[i].tag = "Ok"
                         /\ results[i].field.kind = kind}
    IN  IF targeting = {} THEN None
        ELSE SlotValue(results[CHOOSE i \in targeting :
                                   \A j \in targeting : j <= i].field)

\* The errors of the tokens that are no field, in token order.
Rejected(results) ==
    LET errors == SelectSeq(results, LAMBDA result : result.tag = "Err")
    IN  [i \in 1 .. Len(errors) |-> errors[i].error]

\* The builder, and the outcome of the line, hold the last fields and the
\* errors of results only.
HoldsLastFields(results) ==
    /\ parser.self.condition_builder =
          [event_pattern |-> LastField(results, "NameField"),
           channel_pattern |-> LastField(results, "ChannelField"),
           value_pattern |-> LastField(results, "ValueField"),
           velocity_pattern |-> LastField(results, "VelocityField"),
           control_no_pattern |-> LastField(results, "ControlNoField")]
    /\ IF Rejected(results) = <<>>
       THEN /\ parsed.tag = "Ok"
            /\ parsed.rule.condition =
                  [event_pattern |-> LastField(results, "NameField"),
                   channel_pattern |-> LastField(results, "ChannelField"),
                   value_pattern |-> LastField(results, "ValueField"),
                   velocity_pattern |-> LastField(results, "VelocityField"),
                   controller_pattern |-> LastField(results, "ControlNoField")]
       ELSE /\ parsed.tag = "Err"
            /\ parsed.error.invalid_fields = Rejected(results)

\* C22: when several left-hand-side tokens target one slot, the slot holds
\* the range of the last token that targets it, whatever the other tokens
\* are, and the only errors are those of the tokens that are no field: a
\* repeated slot is no error, and the rule of a line without invalid token
\* carries the last ranges.
C22_LastFieldWins ==
    pc = "parsed" => HoldsLastFields(LeftHandFields(rule_line))

\* `note-.* ch5 <40 ch16` has parsed to a rule for channel 16 and values
\* below 40.
C22_Witness ==
    /\ RuleParsed
    /\ rule_line = <<"note-.*", "ch5", "<40", "ch16">>
    /\ parsed.rule.condition.channel_pattern = Some(NumericRange(16, 16))
    /\ parsed.rule.condition.value_pattern = Some(NumericRange(-32768, 39))

\* The builder has no numeric range.
NoNumericSlot(builder) ==
    /\ builder.channel_pattern = None
    /\ builder.value_pattern = None
    /\ builder.velocity_pattern = None
    /\ builder.control_no_pattern = None

\* The left-hand-side token at 1-based position i is among the errors as
\* one of invalid format.
RejectedAsField(errors, tokens, i) ==
    \E k \in 1 .. Len(errors) :
        errors[k] = FieldParseError(i - 1, tokens[i], InvalidFormat)

\* C24: the token at index 0 is taken as a name pattern and never as a
\* numeric field, whatever its shape: it becomes the pattern or is rejected
\* as a regex; a left-hand-side token at index >= 1 never becomes the name
\* pattern, and one that is a kind name pattern is rejected as invalid
\* format. So a rule has a name pattern iff its line starts with a token
\* other than `=>`.
C24_FirstTokenIsTheNamePattern ==
    /\ Parsing =>
          /\ IsSome(parser.self.condition_builder.event_pattern) =>
                /\ Len(Taken) >= 1
                /\ Taken[1] # FORWARD_SYMBOL
                /\ parser.self.condition_builder.event_pattern = Some(Taken[1])
          /\ (/\ Len(Taken) >= 1
              /\ Taken[1] # FORWARD_SYMBOL
              /\ ~IsSome(parser.self.condition_builder.event_pattern)) =>
                /\ parser.self.errors # <<>>
                /\ parser.self.errors[1] =
                      FieldParseError(0, Taken[1], RegexError)
          /\ Len(Taken) = 1 => NoNumericSlot(parser.self.condition_builder)
          /\ \A i \in 2 .. Len(Taken) :
                (i < FirstForward(Taken) /\ Taken[i] = "note-.*") =>
                    RejectedAsField(parser.self.errors, Taken, i)
    /\ RuleParsed =>
          (IsSome(parsed.rule.condition.event_pattern) <=>
              (rule_line # <<>> /\ rule_line[1] # FORWARD_SYMBOL))

\* `ch5 note-.*` has been parsed: `ch5` is the name pattern and no channel
\* range, `note-.*` at index 1 is the one invalid field.
C24_Witness ==
    /\ pc = "parsed"
    /\ rule_line = <<"ch5", "note-.*">>
    /\ parser.self.condition_builder.event_pattern = Some("ch5")
    /\ NoNumericSlot(parser.self.condition_builder)
    /\ parsed = ErrRule(InvalidFields(rule_line_no,
                           <<FieldParseError(1, "note-.*", InvalidFormat)>>))

----------------------------------------------------------------------------
(* Claims about load_rules_from_file (SpecLoad)                            *)

\* A line is blank when nothing but whitespace is on it.
IsBlank(line_result) == split_whitespace(line_result.line) = <<>>

\* What parse_rule makes of the line at raw index line_no of lines.
LineOutcome(lines, line_no) ==
    parse_rule(line_no, split_whitespace(lines[line_no + 1].line),
               overflow_checks)

RECURSIVE RulesOf(_, _)
\* The rules of the first n lines that parse, in file order.
RulesOf(lines, n) ==
    IF n = 0 THEN <<>>
    ELSE RulesOf(lines, n - 1)
         \o (IF ~IsBlank(lines[n]) /\ LineOutcome(lines, n - 1).tag = "Ok"
             THEN <<LineOutcome(lines, n - 1).rule>> ELSE <<>>)

RECURSIVE ErrorsOf(_, _)
\* The errors of the first n lines that fail, in file order.
ErrorsOf(lines, n) ==
    IF n = 0 THEN <<>>
    ELSE ErrorsOf(lines, n - 1)
         \o (IF ~IsBlank(lines[n]) /\ LineOutcome(lines, n - 1).tag = "Err"
             THEN <<LineOutcome(lines, n - 1).error>> ELSE <<>>)

RECURSIVE NonBlank(_, _)
\* How many of the first n lines are not blank.
NonBlank(lines, n) ==
    IF n = 0 THEN 0
    ELSE NonBlank(lines, n - 1) + (IF IsBlank(lines[n]) THEN 0 ELSE 1)

Readable(file) ==
    file.opens /\ \A i \in 1 .. Len(file.lines) : file.lines[i].tag = "Ok"

\* C17: over a readable file, load_rules_from_file returns one rule per
\* non-blank line, in file order, when no line fails, and otherwise a
\* RuleConfigError with one RuleParseError per failing line, in file order.
C17_AllRulesOrAllErrors ==
    (pc \in {"done", "panicked"} /\ Readable(rule_file)) =>
        LET n == Len(rule_file.lines)
        IN  IF ErrorsOf(rule_file.lines, n) = <<>>
            THEN /\ loaded = LoadOk(RulesOf(rule_file.lines, n))
                 /\ Len(loaded.rules) = NonBlank(rule_file.lines, n)
            ELSE loaded = LoadErr(RuleConfigError(ErrorsOf(rule_file.lines,
                                                           n)))

\* The raw indices, among the first n lines, of the lines that fail.
RECURSIVE FailingLineNos(_, _)
FailingLineNos(lines, n) ==
    IF n = 0 THEN <<>>
    ELSE FailingLineNos(lines, n - 1)
         \o (IF ~IsBlank(lines[n]) /\ LineOutcome(lines, n - 1).tag = "Err"
             THEN <<n - 1>> ELSE <<>>)

\* C18: whatever the loader has read, the rules and errors it holds are as
\* many as the lines read that are not blank, and its errors carry, in
\* order, the raw 0-based indices of the lines that failed.
C18_RawLineNumbers ==
    pc \in {"reading", "done", "panicked"} =>
        /\ Len(loader.rules) + Len(loader.errors)
             = NonBlank(rule_file.lines, loader.line_no)
        /\ [i \in 1 .. Len(loader.errors) |-> loader.errors[i].line_no]
             = FailingLineNos(rule_file.lines, loader.line_no)

C18_Witness ==
    /\ pc = "done"
    /\ loaded.tag = "Err"
    /\ loaded.error.kind = "RuleConfigError"
    /\ \E i \in 1 .. Len(loaded.error.errors) :
          /\ loaded.error.errors[i].line_no = 2
          /\ IsBlank(rule_file.lines[1])
          /\ rule_file.lines[2].line = " \t "

\* The loader has met a failure of the file system: the file did not open,
\* or the line it stopped at could not be read.
IoFailureMet ==
    \/ ~rule_file.opens
    \/ /\ loader.line_no < Len(rule_file.lines)
       /\ rule_file.lines[loader.line_no + 1].tag = "Err"

\* C19: when load_rules_from_file returns, it returns an I/O error if it
\* met a failure to open the file or to read a line, whatever parse errors
\* it held, and otherwise it has read the whole file and returns the rules
\* or a RuleConfigError.
C19_IoErrorsAreKeptApart ==
    pc = "done" =>
        IF IoFailureMet THEN loaded = LoadErr(IoError)
        ELSE /\ loader.line_no = Len(rule_file.lines)
             /\ \/ loaded.tag = "Ok"
                \/ loaded.tag = "Err" /\ loaded.error.kind = "RuleConfigError"

C19_Witness ==
    /\ pc = "done"
    /\ loaded = LoadErr(IoError)
    /\ rule_file.opens
    /\ loader.errors # <<>>

----------------------------------------------------------------------------
(* Claims about the channel test, from the rule file to the callback (Spec) *)

\* The lines of a rule file that give ChannelTable.
ChannelLines ==
    <<<<".*", "ch0", "=>", "zero">>,
      <<".*", "ch16", "=>", "sixteen">>,
      <<".*", "ch<8", "=>", "low">>>>

\* A complete channel-voice message on the wire.
IsChannelVoice(raw_event) ==
    Len(raw_event) = 3 /\ HighNibble(raw_event) \in 8 .. 14

\* The channel-voice messages among events.
VoiceOnly(events) == SelectSeq(events, IsChannelVoice)

\* The channel-voice messages among events whose status low nibble is in
\* nibbles.
VoiceOn(events, nibbles) ==
    SelectSeq(events,
              LAMBDA raw_event : /\ IsChannelVoice(raw_event)
                                 /\ LowNibble(raw_event) \in nibbles)

\* The nibbles n with start <= n + 1 <= end.
NibblesWithin(range) ==
    {n \in 0 .. 15 : range.start <= n + 1 /\ n + 1 <= range.end}

\* C29: the channel range [a, b] of a rule is tested against the decoder's
\* 1-based channel: a channel-voice message with status low nibble n
\* passes iff a <= n + 1 <= b. So of the rules parsed from `ch0`, `ch16`
\* and `ch<8`, the first forwards no channel-voice message, the second
\* those of nibble 15 and the third those of nibbles 0 .. 6.
C29_ChannelIsOneBased ==
    routing_table = ChannelTable =>
        /\ \A i \in 1 .. Len(ChannelLines) :
              parse_rule(0, ChannelLines[i], overflow_checks) =
                  OkRule(routing_table[i])
        /\ pc = "returned" =>
              /\ \A i \in 1 .. Len(routing_table) :
                    VoiceOnly(midi_out[routing_table[i].actions[1].output_port])
                        = VoiceOn(midi_in,
                                  NibblesWithin(routing_table[i].condition
                                                    .channel_pattern.some))
              /\ VoiceOnly(midi_out["zero"]) = <<>>
              /\ VoiceOnly(midi_out["sixteen"]) = VoiceOn(midi_in, {15})
              /\ VoiceOnly(midi_out["low"]) = VoiceOn(midi_in, 0 .. 6)

\* A period has returned in which the note-on of wire nibble 15 went to
\* sixteen alone and the control-change of wire nibble 7 to no port.
C29_Witness ==
    /\ pc = "returned"
    /\ routing_table = ChannelTable
    /\ midi_in = <<<<159, 60, 100>>, <<183, 7, 127>>>>
    /\ midi_out = [port \in {"zero", "sixteen", "low"} |->
                      IF port = "sixteen" THEN <<midi_in[1]>> ELSE <<>>]

====
